---- MODULE Spec2Model ----
(***************************************************************************)
(* Model of the Nebuia document-processing client:                         *)
(*   src/exec.py          NebuiaHandler (the workflow orchestrator)        *)
(*   src/nebuia_client.py NebuiaClient  (endpoints and polling primitive)  *)
(*                                                                         *)
(* The remote service is a black box: every remote call is answered by a   *)
(* nondeterministic choice among the responses the client code tells       *)
(* apart (a parsed body of some shape, or a raised exception).             *)
(***************************************************************************)
EXTENDS Integers, Sequences, FiniteSets, TLC

(***************************************************************************)
(* Paths.  A path string is a sequence of one-character strings, so that   *)
(* pathlib's parsing (name, suffix, normalisation) and str.lower() are     *)
(* computed, not assumed.                                                  *)
(***************************************************************************)

\* "a.pdf"
PathLowerPdf == <<"a", ".", "p", "d", "f">>
\* "b.PDF"
PathUpperPdf == <<"b", ".", "P", "D", "F">>
\* "c.txt"
PathTxt == <<"c", ".", "t", "x", "t">>
\* "./d.Pdf" (relative with a leading "./", as in main())
PathDotSlash == <<".", "/", "d", ".", "P", "d", "f">>
\* ".pdf" (a hidden file without extension)
PathHidden == <<".", "p", "d", "f">>
\* "fpdf" (no dot at all)
PathNoDot == <<"f", "p", "d", "f">>

\* The path strings callers pass in the model.
PathUniverse ==
    {PathLowerPdf, PathUpperPdf, PathTxt, PathDotSlash, PathHidden, PathNoDot}

\* str.lower() on one character.
LowerChar(c) ==
    CASE c = "P" -> "p"
      [] c = "D" -> "d"
      [] c = "F" -> "f"
      [] OTHER -> c

\* str.lower()
Lower(s) == [i \in 1..Len(s) |-> LowerChar(s[i])]

\* Index of the last occurrence of character c in s, 0 when there is none.
LastIndexOf(s, c) ==
    IF \E i \in 1..Len(s) : s[i] = c
    THEN CHOOSE i \in 1..Len(s) : s[i] = c /\ \A j \in (i+1)..Len(s) : s[j] # c
    ELSE 0

\* Path(file_path): pathlib drops a leading "./" component.
RECURSIVE PathOf(_)
PathOf(s) ==
    IF Len(s) >= 2 /\ s[1] = "." /\ s[2] = "/"
    THEN PathOf(SubSeq(s, 3, Len(s)))
    ELSE s

\* str(path)
StrPath(p) == p

\* path.name: the final component.
PathName(p) == SubSeq(p, LastIndexOf(p, "/") + 1, Len(p))

\* path.suffix: the final component's last dot and what follows it, unless
\* that dot is the first or the last character of the name.
PathSuffix(p) ==
    LET name == PathName(p)
        i == LastIndexOf(name, ".")
    IN IF i > 1 /\ i < Len(name) THEN SubSeq(name, i, Len(name)) ELSE <<>>

\* path.exists() against the local file system fs (a set of normalised paths).
PathExists(p, fs) == p \in fs

\* The literal '.pdf' both validators compare with.
DotPdf == <<".", "p", "d", "f">>

(***************************************************************************)
(* Dictionaries keep insertion order: a dict is a sequence of entries with *)
(* distinct keys.                                                          *)
(***************************************************************************)

\* Document types of the demo run in main().
DocTypes == {"acta_constitutiva", "actas_de_asamblea"}

\* The keys of a dict, as a set.
Keys(d) == {d[i].key : i \in 1..Len(d)}

\* The keys of a dict, in iteration order.
KeySeq(d) == [i \in 1..Len(d) |-> d[i].key]

\* d[k] for a key k of d.
Lookup(d, k) == d[CHOOSE i \in 1..Len(d) : d[i].key = k].val

\* All dicts with keys in K and values in V (every key order).
RECURSIVE DictsOver(_, _)
DictsOver(K, V) ==
    {<<>>} \cup
    UNION {{<<[key |-> k, val |-> v]>> \o rest : rest \in DictsOver(K \ {k}, V)}
              : <<k, v>> \in K \X V}

\* Variant of the suffix test that forgets .lower().
validate_entry_case_sensitive(file_path, fs) ==
    LET path == PathOf(file_path)
    IN PathExists(path, fs) /\ PathSuffix(path) = DotPdf

\* One iteration of validate_documents' loop: TRUE when the entry is kept.
validate_entry(file_path, fs) ==
    LET path == PathOf(file_path)
    IN /\ PathExists(path, fs)
       /\ Lower(PathSuffix(path)) = DotPdf

\* NebuiaHandler.validate_documents: the kept entries, in input order, each
\* value replaced by str(Path(file_path)).
RECURSIVE validate_documents(_, _)
validate_documents(documents, fs) ==
    IF documents = <<>> THEN <<>>
    ELSE LET e == Head(documents)
             rest == validate_documents(Tail(documents), fs)
         IN IF validate_entry(e.val, fs)
            THEN <<[key |-> e.key, val |-> StrPath(PathOf(e.val))]>> \o rest
            ELSE rest

(***************************************************************************)
(* Exceptions.  `except C` catches an exception whose class is C or a      *)
(* subclass of C.                                                          *)
(***************************************************************************)

\* What a remote call can raise: a transport failure (NebuiaError), a
\* non-2xx answer (NebuiaApiError), a body that is not JSON (ValueError).
RemoteExceptions == {"NebuiaError", "NebuiaApiError", "ValueError"}

\* issubclass(exc, cls) for the classes the handlers name.
IsSubclass(exc, cls) ==
    \/ cls = "Exception"
    \/ exc = cls
    \/ cls = "NebuiaError" /\ exc = "NebuiaApiError"

\* Variant of the top-level handler that names NebuiaError only.
process_documents_catches_nebuia_only(exc) == IsSubclass(exc, "NebuiaError")

\* process_documents: `except Exception as e: ... return None`.
process_documents_catches(exc) == IsSubclass(exc, "Exception")

\* Variant of the upload loop's handler that lets API errors through.
upload_loop_catches_network_only(exc) == exc = "NebuiaError"

\* _create_and_upload: `except Exception as e:` inside the upload loop.
upload_loop_catches(exc) == IsSubclass(exc, "Exception")

(***************************************************************************)
(* Bounds and program constants.                                           *)
(***************************************************************************)

\* status_check_timeout is drawn from 0..MaxStatusTimeout (seconds).
MaxStatusTimeout == 2

\* A sleep may overshoot the requested time by 0..MaxJitter seconds.
MaxJitter == 1

\* timeout is drawn from {0, polling_interval, .., MaxPollBudget * polling_interval}.
MaxPollBudget == 1

\* wait_for_record_completion's default polling_interval.
DefaultPollingInterval == 10

\* The status_check_interval of the modelled runs (seconds).
StatusCheckInterval == 1

(***************************************************************************)
(* Remote responses, as far as the client tells them apart.                *)
(***************************************************************************)

\* Record.status values.
RecordStatuses == {"waiting", "processing", "complete", "error"}

\* A record snapshot (the body of GET .../records/{id}).
Snapshots == [status : RecordStatuses]

NoSnapshot == [status |-> "none"]

\* A record body without a status field, and the bodies a poll can fetch.
NoStatusSnapshot == [status |-> "absent"]
PollSnapshots == Snapshots \cup {NoStatusSnapshot}

\* Embedding status bodies of GET .../document/{id}/status.
EmbeddingStatuses == {"pending", "complete", "error"}

\* Bodies of GET .../records/{id}/type/{docTypeId}: status true; status false
\* with points and type_document_found; no status key at all.
VerifyPass == [status |-> "True", detail |-> FALSE, error |-> FALSE]
VerifyFail == [status |-> "False", detail |-> TRUE, error |-> FALSE]
VerifyNoStatus == [status |-> "absent", detail |-> FALSE, error |-> FALSE]
\* A body whose status is truthy without being the value True ("true", 1).
VerifyTruthy == [status |-> "truthy", detail |-> FALSE, error |-> FALSE]
VerifyBodies == {VerifyPass, VerifyFail, VerifyNoStatus, VerifyTruthy}

\* What is known of one document type's verification call.
NotVerified == [kind |-> "none", body |-> VerifyNoStatus]
CallRaised == [kind |-> "raised", body |-> VerifyNoStatus]
Answered(body) == [kind |-> "body", body |-> body]

\* {"status": False, "error": str(e)}
VerifyError == [status |-> "False", detail |-> FALSE, error |-> TRUE]

\* document.get("document_id"): a falsy value (None when the listed document
\* carries no id) or a usable id.
IdNone == "None"
IdSome == "doc-id"

\* The values process_documents can hand back.
Unset == [kind |-> "unset", status |-> "none", has_vr |-> FALSE, vr |-> <<>>]
NoneResult == [kind |-> "None", status |-> "none", has_vr |-> FALSE, vr |-> <<>>]
RecordResult(snap, vr) ==
    [kind |-> "record", status |-> snap.status, has_vr |-> TRUE, vr |-> vr]
PlainRecordResult(snap) ==
    [kind |-> "record", status |-> snap.status, has_vr |-> FALSE, vr |-> <<>>]

(***************************************************************************)
(* State.                                                                  *)
(***************************************************************************)
VARIABLES
    pc,                   \* position in process_documents and its helpers
    args,                 \* the arguments of the call
    fs,                   \* local files that exist
    valid_documents,      \* process_documents: validate_documents' result
    document_ids,         \* _create_and_upload: doc_type -> document_id
    idx,                  \* position of the running for-loop
    clock,                \* time.time()
    start_time,           \* start_time of the running wait loop
    pending_documents,    \* _wait_for_embedding: this round's pending list
    embedding_success,    \* process_documents: _wait_for_embedding's result
    verification_results, \* _verify_all_documents: doc_type -> verification
    verification_passed,  \* _verify_all_documents: overall flag
    result,               \* what process_documents returned
    raised,               \* an exception left process_documents
    seen,                 \* history: remote operations called so far
    lastStage,            \* history: the latest pipeline-stage call
    uploaded,             \* history: doc types whose upload call returned
    uploadTried,          \* history: doc types upload_document was called for
    statusChecked,        \* history: doc types whose status was queried
    verifyCount,          \* history: verify_document_type calls per doc type
    jobCount,             \* history: create_processing_job calls
    lastFetched,          \* history: latest body of get_record_details
    fetchFailed,          \* history: the latest record fetch outside a poll raised
    seenComplete,         \* history: doc types whose status was seen complete
    checkRaised,          \* history: some get_document_status call raised
    roundChecked,         \* history: doc types queried in the current round
    roundRaised,          \* history: doc types whose query raised this round
    verifyLog,            \* history: doc type -> what its verify call did
    waitOutcome,          \* history: how wait_for_record_completion ended
    pollLog,              \* history: the statuses the polls read, in order
    pollSleeps,           \* history: sleeps of wait_for_record_completion
    callbackLog,          \* history: the status_callback invocations, in order
    fetchErrors,          \* history: polls whose record fetch raised
    enable_curl_logging,  \* NebuiaClient: self.enable_curl_logging
    call,                 \* the client method being called, with its arguments
    cpc,                  \* position in the client method
    curlLog,              \* the records curl_logger has written, in order
    sent,                 \* the requests handed to the session, in order
    response,             \* what the session gave back for the latest request
    outcome,              \* what the client method returned or raised
    openHandles,          \* upload_document: files opened and not yet closed
    opened,               \* history: files upload_document opened
    results,              \* process_multiple_records: the results list
    workflows,            \* history: process_full_workflow calls
    record_result,        \* extract_document_entities: its argument
    extracted_info,       \* extract_document_entities: its return value
    recordIdMissing,      \* history: create_record answered without an id
    jobOutcome,           \* history: how create_processing_job ended
    listed,               \* history: doc types the post-upload snapshot listed
    embedRounds,          \* history: rounds of _wait_for_embedding's loop
    wfCalls,              \* process_full_workflow: the client calls it made
    runs,                 \* concurrent runs: the locals of each process_documents call
    answered,             \* concurrent runs: what the service answered to each run
    logSink               \* concurrent runs: the records in the shared logger

vars == <<pc, args, fs, valid_documents, document_ids, idx, clock, start_time,
          pending_documents, embedding_success, verification_results,
          verification_passed, result, raised, seen, lastStage, uploaded, uploadTried,
          statusChecked, verifyCount, jobCount, lastFetched, fetchFailed,
          seenComplete, checkRaised, roundChecked, roundRaised, verifyLog,
          waitOutcome, pollLog, pollSleeps, callbackLog, fetchErrors,
          enable_curl_logging, call, cpc, curlLog, sent, response, outcome,
          openHandles, opened, results, workflows, record_result,
          extracted_info, recordIdMissing, jobOutcome, listed, embedRounds,
          wfCalls, runs, answered, logSink>>

locals == <<valid_documents, document_ids, idx, start_time, pending_documents,
            embedding_success, verification_results, verification_passed>>

history == <<seen, lastStage, uploaded, uploadTried, statusChecked,
             verifyCount, jobCount, lastFetched>>

embedHist == <<seenComplete, checkRaised, roundChecked, roundRaised>>

waitHist == <<waitOutcome, pollLog, pollSleeps, callbackLog, fetchErrors>>

runHist == <<recordIdMissing, jobOutcome, listed, embedRounds>>

twoRuns == <<runs, answered, logSink>>

clientVars == <<enable_curl_logging, call, cpc, curlLog, sent, response,
                outcome, openHandles, opened, results, workflows,
                record_result, extracted_info>>

\* No client method is being called on its own.
NoCall ==
    [op |-> "none", method |-> "GET", file_path |-> <<>>, config_data |-> {},
     document_maps |-> <<>>, concurrent |-> FALSE]

\* Nothing was received yet.
NoResponse == [kind |-> "none", status_code |-> 0, parses |-> FALSE]

\* The method has neither returned nor raised.
NoOutcome == [kind |-> "none", status_code |-> 0, body |-> "none"]

\* The client's own state while none of its methods is being followed.
ClientIdle ==
    /\ enable_curl_logging = TRUE
    /\ call = NoCall
    /\ cpc = "idle"
    /\ curlLog = <<>>
    /\ sent = <<>>
    /\ response = NoResponse
    /\ outcome = NoOutcome
    /\ openHandles = {}
    /\ opened = 0
    /\ results = <<>>
    /\ workflows = 0
    /\ record_result = [kind |-> "None", documents |-> <<>>]
    /\ extracted_info = <<>>

\* The paths and file systems of the modelled process_documents calls.
RunPaths == {PathLowerPdf, PathDotSlash, PathTxt}
RunFileSystems ==
    {{PathLowerPdf, PathOf(PathDotSlash), PathTxt}, {PathLowerPdf, PathTxt}}

\* The argument tuples of the modelled process_documents calls.
RunArgs ==
    [documents : DictsOver(DocTypes, RunPaths),
     wait_for_completion : BOOLEAN,
     timeout : {k * DefaultPollingInterval : k \in 0..MaxPollBudget},
     polling_interval : {DefaultPollingInterval},
     status_callback : {TRUE},
     auto_process : BOOLEAN,
     status_check_interval : {StatusCheckInterval},
     status_check_timeout : 0..MaxStatusTimeout]

InitLocals ==
    /\ valid_documents = <<>>
    /\ document_ids = <<>>
    /\ idx = 0
    /\ clock = 0
    /\ start_time = 0
    /\ pending_documents = <<>>
    /\ embedding_success = "unset"
    /\ verification_results = <<>>
    /\ verification_passed = TRUE
    /\ result = Unset
    /\ raised = FALSE
    /\ seen = {}
    /\ lastStage = "none"
    /\ uploaded = {}
    /\ uploadTried = {}
    /\ statusChecked = {}
    /\ verifyCount = [d \in DocTypes |-> 0]
    /\ jobCount = 0
    /\ lastFetched = NoSnapshot
    /\ fetchFailed = FALSE
    /\ seenComplete = {}
    /\ checkRaised = FALSE
    /\ roundChecked = {}
    /\ roundRaised = {}
    /\ verifyLog = [d \in DocTypes |-> NotVerified]
    /\ waitOutcome = "none"
    /\ pollLog = <<>>
    /\ pollSleeps = 0
    /\ callbackLog = <<>>
    /\ fetchErrors = 0
    /\ recordIdMissing = FALSE
    /\ jobOutcome = "none"
    /\ listed = {}
    /\ embedRounds = 0
    /\ wfCalls = <<>>
    /\ runs = <<>>
    /\ answered = <<>>
    /\ logSink = {}

\* A handler was constructed and process_documents is about to be called.
Init ==
    /\ pc = "start"
    /\ args \in RunArgs
    /\ fs \in RunFileSystems
    /\ InitLocals
    /\ ClientIdle

(***************************************************************************)
(* process_documents, step by step.  Each remote call is one step.         *)
(***************************************************************************)

\* A remote operation is being called: record it in the history.
Call(op) == seen' = seen \cup {op}

\* A pipeline-stage operation is being called.
StageCall(op) == Call(op) /\ lastStage' = op

\* `return r` from process_documents.
Return(r) ==
    /\ pc' = "done"
    /\ result' = r
    /\ raised' = FALSE

\* An exception reaches process_documents' try block.
Propagate(exc) ==
    /\ pc' = "done"
    /\ IF process_documents_catches(exc)
       THEN result' = NoneResult /\ raised' = FALSE
       ELSE result' = Unset /\ raised' = TRUE

\* Variant of the fail-fast guard that goes on with an empty mapping.
after_validate_no_guard(valid) == "create_record"

\* process_documents: `if not valid_documents: return None`.
after_validate(valid) == IF valid = <<>> THEN "return_none" ELSE "create_record"

\* exec.py 220-224
Validate ==
    /\ pc = "start"
    /\ valid_documents' = validate_documents(args.documents, fs)
    /\ IF after_validate(valid_documents') = "return_none"
       THEN Return(NoneResult)
       ELSE pc' = "create_record" /\ UNCHANGED <<result, raised>>
    /\ UNCHANGED <<args, fs, document_ids, idx, clock, start_time,
                   pending_documents, embedding_success, verification_results,
                   verification_passed, history>>
    /\ UNCHANGED <<fetchFailed, embedHist, verifyLog, waitHist>>
    /\ UNCHANGED clientVars
    /\ UNCHANGED <<runHist, wfCalls>>
    /\ UNCHANGED twoRuns

\* Variant of the record-id test that accepts a response without id.
record_id_ok_unchecked(has_id) == TRUE

\* _create_and_upload: `if not record_id: return None`.
record_id_ok(has_id) == has_id

\* exec.py 293-303: create_record, the id test, the empty document_ids.
CreateRecord ==
    /\ pc = "create_record"
    /\ StageCall("create_record")
    /\ \/ \E exc \in RemoteExceptions :
            /\ Propagate(exc)
            /\ UNCHANGED <<document_ids, idx, recordIdMissing>>
       \/ \E has_id \in BOOLEAN :
            /\ recordIdMissing' = ~has_id
            /\ IF record_id_ok(has_id)
               THEN /\ pc' = "upload"
                    /\ document_ids' = <<>>
                    /\ idx' = 1
                    /\ UNCHANGED <<result, raised>>
               ELSE /\ Return(NoneResult)
                    /\ UNCHANGED <<document_ids, idx>>
    /\ UNCHANGED <<args, fs, valid_documents, clock, start_time,
                   pending_documents, embedding_success, verification_results,
                   verification_passed, uploaded, uploadTried, statusChecked,
                   verifyCount, jobCount, lastFetched>>
    /\ UNCHANGED <<fetchFailed, embedHist, verifyLog, waitHist>>
    /\ UNCHANGED clientVars
    /\ UNCHANGED <<jobOutcome, listed, embedRounds, wfCalls>>
    /\ UNCHANGED twoRuns

\* Variant of the zero-uploads guard that goes on with nothing tracked.
after_uploads_no_guard(ids) == "wait_for_embedding"

\* _create_and_upload 320-324 and process_documents 228-229.
after_uploads(ids) == IF ids = <<>> THEN "return_none" ELSE "wait_for_embedding"

\* The upload loop moves to entry i with ids tracked; past the last entry
\* _create_and_upload returns and _wait_for_embedding starts (exec.py 346-347).
UploadLoopNext(i, ids) ==
    /\ document_ids' = ids
    /\ IF i <= Len(valid_documents)
       THEN /\ pc' = "upload"
            /\ idx' = i
            /\ UNCHANGED <<start_time, result, raised>>
       ELSE IF after_uploads(ids) = "return_none"
            THEN /\ Return(NoneResult)
                 /\ UNCHANGED <<idx, start_time>>
            ELSE /\ pc' = "embed_head"
                 /\ idx' = 0
                 /\ start_time' = clock
                 /\ UNCHANGED <<result, raised>>

\* An exception inside the upload loop's try block.
UploadLoopRaise(exc) ==
    IF upload_loop_catches(exc)
    THEN UploadLoopNext(idx + 1, document_ids)
    ELSE /\ Propagate(exc)
         /\ UNCHANGED <<document_ids, idx, start_time>>

\* exec.py 305-308, 317-318: upload_document for the current entry.
Upload ==
    /\ pc = "upload"
    /\ idx <= Len(valid_documents)
    /\ StageCall("upload_document")
    /\ uploadTried' = uploadTried \cup {valid_documents[idx].key}
    /\ \/ /\ \E exc \in RemoteExceptions : UploadLoopRaise(exc)
          /\ UNCHANGED uploaded
       \/ /\ uploaded' = uploaded \cup {valid_documents[idx].key}
          /\ pc' = "upload_fetch"
          /\ UNCHANGED <<document_ids, idx, start_time, result, raised>>
    /\ UNCHANGED <<args, fs, valid_documents, clock, pending_documents,
                   embedding_success, verification_results, verification_passed, statusChecked,
                   verifyCount, jobCount, lastFetched>>
    /\ UNCHANGED <<fetchFailed, embedHist, verifyLog, waitHist>>
    /\ UNCHANGED clientVars
    /\ UNCHANGED <<runHist, wfCalls>>
    /\ UNCHANGED twoRuns

\* What the snapshot fetched after an upload says about the document type:
\* not listed, listed without document_id, listed with a document_id.
Listings == {"absent", "no_id", "id"}

\* Variant of the lookup that does not track a document without id.
track_document_requires_id(ids, doc_type, listing) ==
    IF listing = "id" THEN Append(ids, [key |-> doc_type, val |-> IdSome])
    ELSE ids

\* Variant of the lookup that tracks the document though it is not listed.
track_document_unlisted(ids, doc_type, listing) ==
    Append(ids, [key |-> doc_type,
                 val |-> IF listing = "id" THEN IdSome ELSE IdNone])

\* exec.py 312-315: document_ids[doc_type] = document.get("document_id") for
\* the first listed document of that type.
track_document(ids, doc_type, listing) ==
    CASE listing = "absent" -> ids
      [] listing = "no_id" -> Append(ids, [key |-> doc_type, val |-> IdNone])
      [] listing = "id" -> Append(ids, [key |-> doc_type, val |-> IdSome])

\* exec.py 311-318: get_record_details after a successful upload.
UploadFetch ==
    /\ pc = "upload_fetch"
    /\ Call("get_record_details")
    /\ \/ /\ \E exc \in RemoteExceptions : UploadLoopRaise(exc)
          /\ UNCHANGED listed
       \/ \E listing \in Listings :
            /\ listed' = IF listing = "absent" THEN listed
                         ELSE listed \cup {valid_documents[idx].key}
            /\ UploadLoopNext(idx + 1,
                  track_document(document_ids, valid_documents[idx].key, listing))
    /\ UNCHANGED <<args, fs, valid_documents, clock, pending_documents,
                   embedding_success, verification_results, verification_passed, lastStage,
                   uploaded, uploadTried, statusChecked, verifyCount,
                   jobCount, lastFetched>>
    /\ UNCHANGED <<fetchFailed, embedHist, verifyLog, waitHist>>
    /\ UNCHANGED clientVars
    /\ UNCHANGED <<recordIdMissing, jobOutcome, embedRounds, wfCalls>>
    /\ UNCHANGED twoRuns

(***************************************************************************)
(* _wait_for_embedding (exec.py 346-382).                                  *)
(***************************************************************************)

\* Variant of the loop test that also runs a round at the very limit.
within_budget_inclusive(now, start, timeout) == now - start <= timeout

\* Variant of the loop test that gives up one second early.
within_budget_one_short(now, start, timeout) == now - start + 1 < timeout

\* `while time.time() - start_time < timeout` of both wait loops.
within_budget(now, start, timeout) == now - start < timeout

\* Variant of the timeout branch that goes on to verification.
after_embedding_timeout_verifies(all_processed) == "verify"

\* process_documents 241-242 on _wait_for_embedding's return value.
after_embedding(all_processed) ==
    IF all_processed THEN "verify" ELSE "timeout_fetch"

\* Leaving _wait_for_embedding with the given return value; on True
\* _verify_all_documents starts (exec.py 399-403).
EmbeddingReturns(all_processed) ==
    /\ embedding_success' = IF all_processed THEN "True" ELSE "False"
    /\ IF after_embedding(all_processed) = "verify"
       THEN /\ pc' = IF document_ids = <<>> THEN "post_verify_fetch" ELSE "verify"
            /\ idx' = 1
            /\ verification_results' = <<>>
            /\ verification_passed' = TRUE
       ELSE /\ pc' = "timeout_fetch"
            /\ idx' = 0
            /\ UNCHANGED <<verification_results, verification_passed>>

\* exec.py 349-350: the loop test; a round starts with an empty pending list.
EmbedHead ==
    /\ pc = "embed_head"
    /\ IF within_budget(clock, start_time, args.status_check_timeout)
       THEN /\ pending_documents' = <<>>
            /\ roundChecked' = {}
            /\ roundRaised' = {}
            /\ embedRounds' = embedRounds + 1
            /\ IF document_ids = <<>>
               THEN EmbeddingReturns(TRUE)
               ELSE /\ pc' = "embed_check"
                    /\ idx' = 1
                    /\ UNCHANGED <<embedding_success, verification_results,
                                   verification_passed>>
       ELSE /\ EmbeddingReturns(FALSE)
            /\ UNCHANGED <<pending_documents, roundChecked, roundRaised,
                           embedRounds>>
    /\ UNCHANGED <<args, fs, valid_documents, document_ids, clock, start_time,
                   result, raised, history>>
    /\ UNCHANGED <<fetchFailed, seenComplete, checkRaised, verifyLog, waitHist>>
    /\ UNCHANGED clientVars
    /\ UNCHANGED <<recordIdMissing, jobOutcome, listed, wfCalls>>
    /\ UNCHANGED twoRuns

\* exec.py 357-361: the round's pending list after one status answer.
note_status(pending, doc_type, status) ==
    IF status # "complete" THEN Append(pending, <<doc_type, status>>)
    ELSE pending

\* Variant of the handler that does not count the document as pending.
note_status_error_ignored(pending, doc_type) == pending

\* exec.py 359-361: a status check that raised is logged and the document
\* is appended to the round's pending list with status "error".
note_status_error(pending, doc_type) == Append(pending, <<doc_type, "error">>)

\* exec.py 352-365: get_document_status for the current tracked document;
\* after the last one, an empty pending list ends the wait with True.
EmbedCheck ==
    /\ pc = "embed_check"
    /\ idx <= Len(document_ids)
    /\ StageCall("get_document_status")
    /\ statusChecked' = statusChecked \cup {document_ids[idx].key}
    /\ roundChecked' = roundChecked \cup {document_ids[idx].key}
    /\ \E status \in EmbeddingStatuses \cup {"raise"} :
         LET pending == IF status = "raise"
                        THEN note_status_error(pending_documents,
                                               document_ids[idx].key)
                        ELSE note_status(pending_documents,
                                         document_ids[idx].key, status)
         IN /\ pending_documents' = pending
            /\ checkRaised' = (checkRaised \/ status = "raise")
            /\ roundRaised' = IF status = "raise"
                              THEN roundRaised \cup {document_ids[idx].key}
                              ELSE roundRaised
            /\ seenComplete' = IF status = "complete"
                               THEN seenComplete \cup {document_ids[idx].key}
                               ELSE seenComplete
            /\ IF idx < Len(document_ids)
               THEN /\ pc' = "embed_check"
                    /\ idx' = idx + 1
                    /\ UNCHANGED <<embedding_success, verification_results,
                                   verification_passed>>
               ELSE IF pending = <<>>
                    THEN EmbeddingReturns(TRUE)
                    ELSE /\ pc' = "embed_sleep"
                         /\ idx' = 0
                         /\ UNCHANGED <<embedding_success,
                                        verification_results,
                                        verification_passed>>
    /\ UNCHANGED <<args, fs, valid_documents, document_ids, clock, start_time,
                   result, raised, uploaded, uploadTried, verifyCount,
                   jobCount, lastFetched>>
    /\ UNCHANGED <<fetchFailed, verifyLog, waitHist>>
    /\ UNCHANGED clientVars
    /\ UNCHANGED <<runHist, wfCalls>>
    /\ UNCHANGED twoRuns

\* exec.py 371: time.sleep(check_interval).  The clock is read at the loop
\* test only, so the time the round's calls took is part of the overshoot.
EmbedSleep ==
    /\ pc = "embed_sleep"
    /\ \E jitter \in 0..MaxJitter :
         clock' = clock + args.status_check_interval + jitter
    /\ pc' = "embed_head"
    /\ UNCHANGED <<args, fs, locals, result, raised, history>>
    /\ UNCHANGED <<fetchFailed, embedHist, verifyLog, waitHist>>
    /\ UNCHANGED clientVars
    /\ UNCHANGED <<runHist, wfCalls>>
    /\ UNCHANGED twoRuns

\* exec.py 241-242: `return self.client.get_record_details(record_id)`.
TimeoutFetch ==
    /\ pc = "timeout_fetch"
    /\ Call("get_record_details")
    /\ \/ /\ \E exc \in RemoteExceptions : Propagate(exc)
          /\ fetchFailed' = TRUE
          /\ UNCHANGED lastFetched
       \/ \E snap \in Snapshots :
            /\ lastFetched' = snap
            /\ fetchFailed' = FALSE
            /\ Return(PlainRecordResult(snap))
    /\ UNCHANGED <<args, fs, locals, clock, lastStage, uploaded, uploadTried,
                   statusChecked, verifyCount, jobCount>>
    /\ UNCHANGED <<embedHist, verifyLog, waitHist>>
    /\ UNCHANGED clientVars
    /\ UNCHANGED <<runHist, wfCalls>>
    /\ UNCHANGED twoRuns

(***************************************************************************)
(* _verify_all_documents (exec.py 399-418) and verify_document_type        *)
(* (exec.py 179-191).                                                      *)
(***************************************************************************)

\* Variant of the pass test that takes a missing status for a pass.
verification_is_valid_lenient(body) == body.status # "False"

\* verify_document_type: `result.get("status") is True`.
verification_is_valid(body) == body.status = "True"

\* Variant of the truthiness test that verifies every tracked document.
has_document_id_always(doc_id) == TRUE

\* _verify_all_documents: `if doc_id:`.
has_document_id(doc_id) == doc_id # IdNone

\* The verify loop moves on; after the last tracked document
\* process_documents fetches the record (exec.py 250).
VerifyLoopNext ==
    IF idx < Len(document_ids)
    THEN pc' = "verify" /\ idx' = idx + 1
    ELSE pc' = "post_verify_fetch" /\ idx' = 0

\* Variant of the wrapper's handler that reports a raised call as a pass.
handler_verify_on_error_passes(exc) == <<TRUE, VerifyError>>

\* verify_document_type 189-191: `except Exception` returns a failing pair.
handler_verify_on_error(exc) == <<FALSE, VerifyError>>

\* verify_document_type 182-187: the pair returned for a parsed body.
handler_verify_on_body(body) == <<verification_is_valid(body), body>>

\* exec.py 407-411: store the verification, lower the flag when not valid.
VerifyStore(pair) ==
    /\ verification_results' =
           Append(verification_results,
                  [key |-> document_ids[idx].key, val |-> pair[2]])
    /\ verification_passed' = IF pair[1] THEN verification_passed ELSE FALSE

\* exec.py 403-411 with 179-191: one tracked document that has an id.
Verify ==
    /\ pc = "verify"
    /\ idx <= Len(document_ids)
    /\ has_document_id(document_ids[idx].val)
    /\ StageCall("verify_document_type")
    /\ verifyCount' = [verifyCount EXCEPT ![document_ids[idx].key] = @ + 1]
    /\ \/ \E exc \in RemoteExceptions :
            /\ VerifyStore(handler_verify_on_error(exc))
            /\ verifyLog' = [verifyLog EXCEPT ![document_ids[idx].key] = CallRaised]
       \/ \E body \in VerifyBodies :
            /\ VerifyStore(handler_verify_on_body(body))
            /\ verifyLog' =
                   [verifyLog EXCEPT ![document_ids[idx].key] = Answered(body)]
    /\ VerifyLoopNext
    /\ UNCHANGED <<args, fs, valid_documents, document_ids, clock, start_time,
                   pending_documents, embedding_success, result, raised,
                   uploaded, uploadTried, statusChecked, jobCount, lastFetched>>
    /\ UNCHANGED <<fetchFailed, embedHist, waitHist>>
    /\ UNCHANGED clientVars
    /\ UNCHANGED <<runHist, wfCalls>>
    /\ UNCHANGED twoRuns

\* exec.py 403-404: a tracked document whose id is None is passed over.
VerifySkip ==
    /\ pc = "verify"
    /\ idx <= Len(document_ids)
    /\ ~has_document_id(document_ids[idx].val)
    /\ VerifyLoopNext
    /\ UNCHANGED <<args, fs, valid_documents, document_ids, clock, start_time,
                   pending_documents, embedding_success, verification_results,
                   verification_passed, result, raised, history>>
    /\ UNCHANGED <<fetchFailed, embedHist, verifyLog, waitHist>>
    /\ UNCHANGED clientVars
    /\ UNCHANGED <<runHist, wfCalls>>
    /\ UNCHANGED twoRuns

\* Variant of the decision that ignores the verification outcome.
should_process_ignores_verification(auto_process, passed) == auto_process

\* process_documents: `if auto_process and verification_passed:`.
should_process(auto_process, passed) == auto_process /\ passed

\* exec.py 250-270: fetch the record, attach the results, decide.
PostVerifyFetch ==
    /\ pc = "post_verify_fetch"
    /\ Call("get_record_details")
    /\ \/ /\ \E exc \in RemoteExceptions : Propagate(exc)
          /\ fetchFailed' = TRUE
          /\ UNCHANGED lastFetched
       \/ \E snap \in Snapshots :
            /\ lastFetched' = snap
            /\ fetchFailed' = FALSE
            /\ IF should_process(args.auto_process, verification_passed)
               THEN pc' = "create_job" /\ UNCHANGED <<result, raised>>
               ELSE Return(RecordResult(snap, verification_results))
    /\ UNCHANGED <<args, fs, locals, clock, lastStage, uploaded, uploadTried,
                   statusChecked, verifyCount, jobCount>>
    /\ UNCHANGED <<embedHist, verifyLog, waitHist>>
    /\ UNCHANGED clientVars
    /\ UNCHANGED <<runHist, wfCalls>>
    /\ UNCHANGED twoRuns

(***************************************************************************)
(* _process_record (exec.py 439-474) with wait_for_record_completion       *)
(* (nebuia_client.py 803-827).                                             *)
(***************************************************************************)

\* Variant of _process_record's handlers without the outer `except Exception`.
process_record_catches_inner_only(exc) ==
    IsSubclass(exc, "TimeoutError") \/ IsSubclass(exc, "NebuiaError")

\* Variant of _process_record's handlers that names NebuiaError only.
process_record_catches_nebuia_only(exc) == IsSubclass(exc, "NebuiaError")

\* _process_record: `except TimeoutError`, `except NebuiaError` around the
\* wait and `except Exception` around the whole try block.
process_record_catches(exc) ==
    \/ IsSubclass(exc, "TimeoutError")
    \/ IsSubclass(exc, "NebuiaError")
    \/ IsSubclass(exc, "Exception")

\* Variant that creates the job again after a wait that timed out.
process_record_retries_on_timeout(exc) ==
    IF exc = "TimeoutError" THEN "create_job" ELSE "final_fetch"

\* _process_record 464-472: a caught exception is logged and control falls
\* through to the fallback fetch.
process_record_on_caught(exc) == "final_fetch"

\* An exception inside _process_record's try block.
ProcessRecordRaise(exc) ==
    IF process_record_catches(exc)
    THEN pc' = process_record_on_caught(exc) /\ UNCHANGED <<result, raised>>
    ELSE Propagate(exc)

\* Variant that polls whether or not waiting was asked for.
after_job_created_always_waits(wait) == "wait"

\* _process_record: `if wait_for_completion:`.
after_job_created(wait) == IF wait THEN "wait" ELSE "final_fetch"

\* exec.py 442-450 and nebuia_client.py 803: create the job; when waiting
\* is asked for, wait_for_record_completion starts its clock.
CreateJob ==
    /\ pc = "create_job"
    /\ StageCall("create_processing_job")
    /\ jobCount' = jobCount + 1
    /\ \/ /\ \E exc \in RemoteExceptions : ProcessRecordRaise(exc)
          /\ jobOutcome' = "raised"
          /\ UNCHANGED start_time
       \/ /\ jobOutcome' = "created"
          /\ IF after_job_created(args.wait_for_completion) = "wait"
             THEN /\ pc' = "poll_head"
                  /\ start_time' = clock
                  /\ UNCHANGED <<result, raised>>
             ELSE /\ pc' = "final_fetch"
                  /\ UNCHANGED <<start_time, result, raised>>
    /\ UNCHANGED <<args, fs, valid_documents, document_ids, idx, clock,
                   pending_documents, embedding_success, verification_results,
                   verification_passed, uploaded, uploadTried, statusChecked,
                   verifyCount, lastFetched>>
    /\ UNCHANGED <<fetchFailed, embedHist, verifyLog, waitHist>>
    /\ UNCHANGED clientVars
    /\ UNCHANGED <<recordIdMissing, listed, embedRounds, wfCalls>>
    /\ UNCHANGED twoRuns

\* nebuia_client.py 805, 826-827: the loop test; TimeoutError past the budget.
PollHead ==
    /\ pc = "poll_head"
    /\ IF within_budget(clock, start_time, args.timeout)
       THEN pc' = "poll_fetch" /\ UNCHANGED <<result, raised, waitOutcome>>
       ELSE /\ ProcessRecordRaise("TimeoutError")
            /\ waitOutcome' = "timed_out"
    /\ UNCHANGED <<args, fs, locals, clock, history>>
    /\ UNCHANGED <<fetchFailed, embedHist, verifyLog, pollLog, pollSleeps,
                   callbackLog, fetchErrors>>
    /\ UNCHANGED clientVars
    /\ UNCHANGED <<runHist, wfCalls>>
    /\ UNCHANGED twoRuns

\* nebuia_client.py 807: record_details.get("status", "unknown").
current_status(snap) ==
    IF snap.status = "absent" THEN "unknown" ELSE snap.status

\* Variant of the status test that keeps polling on status "error".
poll_outcome_error_not_terminal(status) ==
    IF status = "complete" THEN "return" ELSE "sleep"

\* nebuia_client.py 815-822: what a polled status means.
poll_outcome(status) ==
    CASE status = "complete" -> "return"
      [] status = "error" -> "raise"
      [] OTHER -> "sleep"

\* Variant of the callback test that skips the poll that ends the wait.
notify_non_terminal_only(log, callback, status, elapsed, snap) ==
    IF callback /\ status \notin {"complete", "error"}
    THEN Append(log, [status |-> status, elapsed |-> elapsed, snapshot |-> snap])
    ELSE log

\* nebuia_client.py 808-813: `if status_callback:` invokes it with the
\* status, the elapsed time and the fetched record; otherwise a log line.
notify(log, callback, status, elapsed, snap) ==
    IF callback
    THEN Append(log, [status |-> status, elapsed |-> elapsed, snapshot |-> snap])
    ELSE log

\* Variant that swallows a fetch error and polls again after the sleep.
on_fetch_error_swallowed(exc) == "sleep"

\* nebuia_client.py 806: get_record_details is called without a handler.
on_fetch_error(exc) == "propagate"

\* nebuia_client.py 824: time.sleep(polling_interval).
PollSleep ==
    /\ \E jitter \in 0..MaxJitter :
         clock' = clock + args.polling_interval + jitter
    /\ pollSleeps' = pollSleeps + 1

\* nebuia_client.py 806-824 and exec.py 458-463: one poll.  The callback is
\* invoked; a complete record is returned with verification_results
\* attached; an error status raises NebuiaError; otherwise the loop sleeps
\* polling_interval.
PollFetch ==
    /\ pc = "poll_fetch"
    /\ StageCall("wait_for_record_completion")
    /\ \/ /\ fetchErrors' = fetchErrors + 1
          /\ \E exc \in RemoteExceptions :
               IF on_fetch_error(exc) = "propagate"
               THEN /\ ProcessRecordRaise(exc)
                    /\ waitOutcome' = "fetch_raised"
                    /\ UNCHANGED <<clock, pollSleeps>>
               ELSE /\ pc' = "poll_head"
                    /\ PollSleep
                    /\ UNCHANGED <<result, raised, waitOutcome>>
          /\ UNCHANGED <<lastFetched, pollLog, callbackLog>>
       \/ \E snap \in PollSnapshots :
            /\ lastFetched' = snap
            /\ pollLog' = Append(pollLog, current_status(snap))
            /\ callbackLog' = notify(callbackLog, args.status_callback,
                                     current_status(snap), clock - start_time,
                                     snap)
            /\ UNCHANGED fetchErrors
            /\ CASE poll_outcome(current_status(snap)) = "return" ->
                      /\ Return(RecordResult(snap, verification_results))
                      /\ waitOutcome' = "returned"
                      /\ UNCHANGED <<clock, pollSleeps>>
                 [] poll_outcome(current_status(snap)) = "raise" ->
                      /\ ProcessRecordRaise("NebuiaError")
                      /\ waitOutcome' = "record_failed"
                      /\ UNCHANGED <<clock, pollSleeps>>
                 [] OTHER ->
                      /\ pc' = "poll_head"
                      /\ PollSleep
                      /\ UNCHANGED <<result, raised, waitOutcome>>
    /\ UNCHANGED <<args, fs, locals, uploaded, uploadTried, statusChecked,
                   verifyCount, jobCount>>
    /\ UNCHANGED <<fetchFailed, embedHist, verifyLog>>
    /\ UNCHANGED clientVars
    /\ UNCHANGED <<runHist, wfCalls>>
    /\ UNCHANGED twoRuns

\* exec.py 472-474: the fallback fetch, outside _process_record's try block.
FinalFetch ==
    /\ pc = "final_fetch"
    /\ Call("get_record_details")
    /\ \/ /\ \E exc \in RemoteExceptions : Propagate(exc)
          /\ fetchFailed' = TRUE
          /\ UNCHANGED lastFetched
       \/ \E snap \in Snapshots :
            /\ lastFetched' = snap
            /\ fetchFailed' = FALSE
            /\ Return(RecordResult(snap, verification_results))
    /\ UNCHANGED <<args, fs, locals, clock, lastStage, uploaded, uploadTried,
                   statusChecked, verifyCount, jobCount>>
    /\ UNCHANGED <<embedHist, verifyLog, waitHist>>
    /\ UNCHANGED clientVars
    /\ UNCHANGED <<runHist, wfCalls>>
    /\ UNCHANGED twoRuns

Next ==
    \/ Validate
    \/ CreateRecord
    \/ Upload
    \/ UploadFetch
    \/ EmbedHead
    \/ EmbedCheck
    \/ EmbedSleep
    \/ TimeoutFetch
    \/ Verify
    \/ VerifySkip
    \/ PostVerifyFetch
    \/ CreateJob
    \/ PollHead
    \/ PollFetch
    \/ FinalFetch

Spec == Init /\ [][Next]_vars

\* The calls followed to their end: two documents, in the order of the
\* demo run in main(), each with any of the paths of RunPaths, all of
\* which exist.
InitLive ==
    /\ Init
    /\ Len(args.documents) = 2
    /\ args.documents[1].key = "acta_constitutiva"
    /\ RunPaths \subseteq {p \in PathUniverse : PathOf(p) \in fs}

\* The same run under the interpreter's scheduling: the thread that runs
\* process_documents goes on taking its next step as long as it has one.
SpecLive == InitLive /\ [][Next]_vars /\ WF_vars(Next)

(***************************************************************************)
(* validate_documents on its own, over every mapping of the document types *)
(* to the paths of PathUniverse and every set of existing files.           *)
(***************************************************************************)

InitValidate ==
    /\ pc = "start"
    /\ \E documents \in DictsOver(DocTypes, PathUniverse) :
         args = [documents |-> documents,
                 wait_for_completion |-> TRUE,
                 timeout |-> 0,
                 polling_interval |-> DefaultPollingInterval,
                 status_callback |-> TRUE,
                 auto_process |-> TRUE,
                 status_check_interval |-> StatusCheckInterval,
                 status_check_timeout |-> 0]
    /\ fs \in SUBSET {PathOf(p) : p \in PathUniverse}
    /\ InitLocals
    /\ ClientIdle

\* exec.py 108-134: one call of validate_documents.
ValidateOnly ==
    /\ pc = "start"
    /\ pc' = "validated"
    /\ valid_documents' = validate_documents(args.documents, fs)
    /\ UNCHANGED <<args, fs, document_ids, idx, clock, start_time,
                   pending_documents, embedding_success, verification_results,
                   verification_passed, result, raised, history>>
    /\ UNCHANGED <<fetchFailed, embedHist, verifyLog, waitHist>>
    /\ UNCHANGED clientVars
    /\ UNCHANGED <<runHist, wfCalls>>
    /\ UNCHANGED twoRuns

NextValidate == ValidateOnly

SpecValidate == InitValidate /\ [][NextValidate]_vars

(***************************************************************************)
(* _wait_for_embedding on its own: every call with one or two tracked      *)
(* documents, a check interval of 1..MaxInterval and a timeout of          *)
(* 0..MaxWaitTimeout.                                                      *)
(***************************************************************************)

MaxInterval == 2

MaxWaitTimeout == 3

\* The document_ids mappings _create_and_upload can hand over: not empty.
TrackedIds == DictsOver(DocTypes, {IdSome, IdNone}) \ {<<>>}

InitEmbed ==
    /\ pc = "embed_call"
    /\ args \in [documents : {<<>>},
                 wait_for_completion : {TRUE},
                 timeout : {0},
                 polling_interval : {DefaultPollingInterval},
                 status_callback : {TRUE},
                 auto_process : {TRUE},
                 status_check_interval : 1..MaxInterval,
                 status_check_timeout : 0..MaxWaitTimeout]
    /\ fs = {}
    /\ InitLocals
    /\ ClientIdle

\* exec.py 346-347: _wait_for_embedding is entered and reads its start time.
EmbedCall ==
    /\ pc = "embed_call"
    /\ \E ids \in TrackedIds : document_ids' = ids
    /\ start_time' = clock
    /\ pc' = "embed_head"
    /\ UNCHANGED <<args, fs, valid_documents, idx, clock, pending_documents,
                   embedding_success, verification_results,
                   verification_passed, result, raised, history>>
    /\ UNCHANGED <<fetchFailed, embedHist, verifyLog, waitHist>>
    /\ UNCHANGED clientVars
    /\ UNCHANGED <<runHist, wfCalls>>
    /\ UNCHANGED twoRuns

NextEmbed ==
    \/ EmbedCall
    \/ EmbedHead
    \/ EmbedCheck
    \/ EmbedSleep

SpecEmbed == InitEmbed /\ [][NextEmbed]_vars

(***************************************************************************)
(* wait_for_record_completion on its own: every call with a polling        *)
(* interval of 1..MaxInterval and a timeout of 0..MaxWaitTimeout.  Its     *)
(* caller's handlers are those of _process_record.                         *)
(***************************************************************************)

InitWait ==
    /\ pc = "wait_call"
    /\ args \in [documents : {<<>>},
                 wait_for_completion : {TRUE},
                 timeout : 0..MaxWaitTimeout,
                 polling_interval : 1..MaxInterval,
                 status_callback : BOOLEAN,
                 auto_process : {TRUE},
                 status_check_interval : {StatusCheckInterval},
                 status_check_timeout : {0}]
    /\ fs = {}
    /\ InitLocals
    /\ ClientIdle

\* nebuia_client.py 803: wait_for_record_completion reads its start time.
WaitCall ==
    /\ pc = "wait_call"
    /\ start_time' = clock
    /\ pc' = "poll_head"
    /\ UNCHANGED <<args, fs, valid_documents, document_ids, idx, clock,
                   pending_documents, embedding_success, verification_results,
                   verification_passed, result, raised, history>>
    /\ UNCHANGED <<fetchFailed, embedHist, verifyLog, waitHist>>
    /\ UNCHANGED clientVars
    /\ UNCHANGED <<runHist, wfCalls>>
    /\ UNCHANGED twoRuns

NextWait ==
    \/ WaitCall
    \/ PollHead
    \/ PollFetch

SpecWait == InitWait /\ [][NextWait]_vars

(***************************************************************************)
(* The client's request methods on their own: one call of _make_request,   *)
(* get_record_details, create_record, create_configuration,                *)
(* upload_document or get_document_status, with curl logging on or off.    *)
(* The session is a black box: it hands back a response or raises.         *)
(***************************************************************************)

\* The arguments of process_documents while only the client is followed.
IdleArgs ==
    [documents |-> <<>>,
     wait_for_completion |-> TRUE,
     timeout |-> 0,
     polling_interval |-> DefaultPollingInterval,
     status_callback |-> TRUE,
     auto_process |-> TRUE,
     status_check_interval |-> StatusCheckInterval,
     status_check_timeout |-> 0]

\* The handler is not running.
HandlerIdle ==
    /\ pc = "client"
    /\ args = IdleArgs
    /\ InitLocals

\* nebuia_client.py 363: the fields create_configuration requires.
required_fields ==
    <<"title", "subtitle", "description", "endpoint", "icon", "documents">>

\* The keys a caller's config_data can have.
ConfigKeys == {required_fields[i] : i \in 1..Len(required_fields)} \cup {"color"}

\* The HTTP methods _make_request is called with.
Methods == {"GET", "POST", "get", "DELETE"}

\* str.upper() on a method name.
UpperMethod(m) == IF m = "get" THEN "GET" ELSE m

\* The HTTP method each client operation passes to _make_request.
MethodOf(op) == IF op = "get_record_details" THEN "GET" ELSE "POST"

\* The calls of the client's request methods.
ClientCalls ==
    {[NoCall EXCEPT !.op = "_make_request", !.method = m] : m \in Methods}
    \cup {[NoCall EXCEPT !.op = op, !.method = MethodOf(op)]
            : op \in {"get_record_details", "create_record"}}
    \cup {[NoCall EXCEPT !.op = "get_document_status"]}
    \cup {[NoCall EXCEPT !.op = "create_configuration", !.method = "POST",
                         !.config_data = c] : c \in SUBSET ConfigKeys}
    \cup {[NoCall EXCEPT !.op = "upload_document", !.method = "POST",
                         !.file_path = p] : p \in PathUniverse}

\* The status codes of the responses the session hands back.
StatusCodes == {200, 204, 304, 404, 500}

\* The responses of the session: a status code and whether the body is
\* JSON (an empty 204 body is not).
Responses ==
    {r \in [kind : {"response"}, status_code : StatusCodes, parses : BOOLEAN]
        : r.status_code = 204 => ~r.parses}

\* session.get / session.post raised a requests.RequestException.
TransportFailure ==
    [kind |-> "transport_failure", status_code |-> 0, parses |-> FALSE]

InitClient ==
    /\ HandlerIdle
    /\ enable_curl_logging \in BOOLEAN
    /\ call \in ClientCalls
    /\ fs \in IF call.op = "upload_document"
              THEN SUBSET {PathOf(p) : p \in PathUniverse}
              ELSE {{}}
    /\ cpc = "call"
    /\ curlLog = <<>>
    /\ sent = <<>>
    /\ response = NoResponse
    /\ outcome = NoOutcome
    /\ openHandles = {}
    /\ opened = 0
    /\ results = <<>>
    /\ workflows = 0
    /\ record_result = [kind |-> "None", documents |-> <<>>]
    /\ extracted_info = <<>>

\* The method raises exc.
Raises(exc) == [kind |-> exc, status_code |-> 0, body |-> "none"]

\* Variant of the upload check that forgets .lower().
upload_precheck_case_sensitive(file_path, files) ==
    LET path == PathOf(file_path)
    IN IF ~PathExists(path, files) THEN "FileNotFoundError"
       ELSE IF PathSuffix(path) # DotPdf THEN "ValueError"
       ELSE "ok"

\* nebuia_client.py 666-674: upload_document's checks of the file, in
\* order; "ok" when both pass.
upload_precheck(file_path, files) ==
    LET path == PathOf(file_path)
    IN IF ~PathExists(path, files) THEN "FileNotFoundError"
       ELSE IF Lower(PathSuffix(path)) # DotPdf THEN "ValueError"
       ELSE "ok"

\* Variant of the field check that does not require "documents".
missing_fields_without_documents(config_data) ==
    SelectSeq(required_fields,
              LAMBDA field : field \notin config_data /\ field # "documents")

\* nebuia_client.py 364: the required fields config_data lacks, in order.
missing_fields(config_data) ==
    SelectSeq(required_fields, LAMBDA field : field \notin config_data)

\* The method is entered: local checks, then on to _make_request or, for
\* get_document_status, to its own session call.
ClientCall ==
    /\ cpc = "call"
    /\ CASE call.op = "upload_document" ->
              LET check == upload_precheck(call.file_path, fs)
              IN IF check # "ok"
                 THEN /\ outcome' = Raises(check)
                      /\ cpc' = "done"
                      /\ UNCHANGED <<openHandles, opened>>
                 ELSE /\ openHandles' = openHandles \cup {PathOf(call.file_path)}
                      /\ opened' = opened + 1
                      /\ cpc' = "log"
                      /\ UNCHANGED outcome
         [] call.op = "create_configuration" ->
              /\ IF missing_fields(call.config_data) # <<>>
                 THEN outcome' = Raises("ValueError") /\ cpc' = "done"
                 ELSE cpc' = "log" /\ UNCHANGED outcome
              /\ UNCHANGED <<openHandles, opened>>
         [] call.op = "get_document_status" ->
              /\ cpc' = "status_send"
              /\ UNCHANGED <<outcome, openHandles, opened>>
         [] OTHER ->
              /\ cpc' = "log"
              /\ UNCHANGED <<outcome, openHandles, opened>>
    /\ UNCHANGED <<enable_curl_logging, call, curlLog, sent, response, results,
                   workflows, record_result, extracted_info>>
    /\ UNCHANGED <<pc, args, fs, locals, clock, result, raised, history,
                   fetchFailed, embedHist, verifyLog, waitHist>>
    /\ UNCHANGED <<runHist, wfCalls>>
    /\ UNCHANGED twoRuns

\* Variant of the logging step that writes nothing.
log_curl_command_never(log, enabled, operation_name) == log

\* nebuia_client.py 292-295 and 228-250: the curl record of the request is
\* written when logging is enabled.
log_curl_command(log, enabled, operation_name) ==
    IF enabled THEN Append(log, operation_name) ELSE log

\* _make_request up to its try block.
MakeRequestLog ==
    /\ cpc = "log"
    /\ curlLog' = log_curl_command(curlLog, enable_curl_logging, call.op)
    /\ cpc' = "send"
    /\ UNCHANGED <<enable_curl_logging, call, sent, response, outcome,
                   openHandles, opened, results, workflows, record_result,
                   extracted_info>>
    /\ UNCHANGED <<pc, args, fs, locals, clock, result, raised, history,
                   fetchFailed, embedHist, verifyLog, waitHist>>
    /\ UNCHANGED <<runHist, wfCalls>>
    /\ UNCHANGED twoRuns

\* requests: Response.ok is False for the status codes raise_for_status
\* raises for, 400 to 599.
response_ok(status_code) == status_code < 400

\* nebuia_client.py 321-339 (and 524-542): what the method does with what
\* the session gave back.  A 2xx body that is not JSON makes
\* response.json() raise: a RequestException in the requests releases that
\* derive their JSONDecodeError from it, a plain ValueError in the others.
request_outcomes(resp) ==
    IF resp.kind = "transport_failure"
    THEN {Raises("NebuiaError")}
    ELSE IF ~response_ok(resp.status_code)
    THEN {[kind |-> "NebuiaApiError", status_code |-> resp.status_code,
           body |-> IF resp.parses THEN "json" ELSE "text"]}
    ELSE IF resp.parses
    THEN {[kind |-> "body", status_code |-> resp.status_code, body |-> "json"]}
    ELSE {Raises("NebuiaError"), Raises("ValueError")}

\* The request goes to the session, which answers or raises.
Dispatch(origin) ==
    /\ sent' = Append(sent, [op |-> call.op, origin |-> origin])
    /\ \E resp \in Responses \cup {TransportFailure} :
         /\ response' = resp
         /\ \E o \in request_outcomes(resp) : outcome' = o

\* nebuia_client.py 297-339: _make_request's try block.
MakeRequestSend ==
    /\ cpc = "send"
    /\ IF UpperMethod(call.method) \in {"GET", "POST"}
       THEN Dispatch("api")
       ELSE /\ outcome' = Raises("ValueError")
            /\ UNCHANGED <<sent, response>>
    /\ cpc' = IF call.op = "upload_document" THEN "finally" ELSE "done"
    /\ UNCHANGED <<enable_curl_logging, call, curlLog, openHandles, opened,
                   results, workflows, record_result, extracted_info>>
    /\ UNCHANGED <<pc, args, fs, locals, clock, result, raised, history,
                   fetchFailed, embedHist, verifyLog, waitHist>>
    /\ UNCHANGED <<runHist, wfCalls>>
    /\ UNCHANGED twoRuns

\* nebuia_client.py 511-542: get_document_status calls the session itself.
StatusSend ==
    /\ cpc = "status_send"
    /\ Dispatch("embeddings")
    /\ cpc' = "done"
    /\ UNCHANGED <<enable_curl_logging, call, curlLog, openHandles, opened,
                   results, workflows, record_result, extracted_info>>
    /\ UNCHANGED <<pc, args, fs, locals, clock, result, raised, history,
                   fetchFailed, embedHist, verifyLog, waitHist>>
    /\ UNCHANGED <<runHist, wfCalls>>
    /\ UNCHANGED twoRuns

\* Variant of the finally clause that closes the file only after a success.
after_finally_on_success_only(handles, kind) ==
    IF kind = "body" THEN {} ELSE handles

\* nebuia_client.py 698-701: the finally clause closes the file however
\* _make_request ended.
after_finally(handles, kind) == {}

\* upload_document's finally clause.
UploadFinally ==
    /\ cpc = "finally"
    /\ openHandles' = after_finally(openHandles, outcome.kind)
    /\ cpc' = "done"
    /\ UNCHANGED <<enable_curl_logging, call, curlLog, sent, response,
                   outcome, opened, results, workflows, record_result,
                   extracted_info>>
    /\ UNCHANGED <<pc, args, fs, locals, clock, result, raised, history,
                   fetchFailed, embedHist, verifyLog, waitHist>>
    /\ UNCHANGED <<runHist, wfCalls>>
    /\ UNCHANGED twoRuns

NextClient ==
    \/ ClientCall
    \/ MakeRequestLog
    \/ MakeRequestSend
    \/ StatusSend
    \/ UploadFinally

SpecClient == InitClient /\ [][NextClient]_vars

(***************************************************************************)
(* process_multiple_records on its own: every list of up to MaxMaps        *)
(* document maps, sequential or concurrent.  process_full_workflow is one  *)
(* step: it hands back the completed record of its map or raises           *)
(* NebuiaError.                                                            *)
(***************************************************************************)

MaxMaps == 2

\* The files that exist while the batch runs.
BatchFiles == {PathLowerPdf, PathTxt}

\* The document maps a caller can put in the list.
BatchMaps == DictsOver(DocTypes, BatchFiles)

\* All lists of at most n document maps.
RECURSIVE MapLists(_)
MapLists(n) ==
    IF n = 0 THEN {<<>>}
    ELSE MapLists(n - 1) \cup
         {Append(l, m) : <<l, m>> \in {k \in MapLists(n - 1) : Len(k) = n - 1} \X BatchMaps}

InitBatch ==
    /\ HandlerIdle
    /\ fs = BatchFiles
    /\ enable_curl_logging = TRUE
    /\ call \in {[NoCall EXCEPT !.op = "process_multiple_records",
                                !.document_maps = l, !.concurrent = c]
                   : <<l, c>> \in MapLists(MaxMaps) \X BOOLEAN}
    /\ cpc = "call"
    /\ curlLog = <<>>
    /\ sent = <<>>
    /\ response = NoResponse
    /\ outcome = NoOutcome
    /\ openHandles = {}
    /\ opened = 0
    /\ results = <<>>
    /\ workflows = 0
    /\ record_result = [kind |-> "None", documents |-> <<>>]
    /\ extracted_info = <<>>

\* The method returned (its value is in results).
Returned == [kind |-> "body", status_code |-> 0, body |-> "results"]

\* nebuia_client.py 853-876: how process_full_workflow can end for a map.
\* upload_document refuses a file that fails its checks, and every
\* exception is wrapped in NebuiaError; otherwise the service decides.
workflow_outcomes(document_map, files) ==
    IF \E i \in 1..Len(document_map) :
         upload_precheck(document_map[i].val, files) # "ok"
    THEN {"NebuiaError"}
    ELSE {"complete", "NebuiaError"}

\* nebuia_client.py 902-909: results is created; the concurrent branch
\* only logs a warning, the other one enters the loop.
BatchCall ==
    /\ cpc = "call"
    /\ call.op = "process_multiple_records"
    /\ results' = <<>>
    /\ IF call.concurrent
       THEN cpc' = "done" /\ outcome' = Returned
       ELSE cpc' = "loop" /\ UNCHANGED outcome
    /\ UNCHANGED <<enable_curl_logging, call, curlLog, sent, response,
                   openHandles, opened, workflows, record_result,
                   extracted_info>>
    /\ UNCHANGED <<pc, args, fs, locals, clock, result, raised, history,
                   fetchFailed, embedHist, verifyLog, waitHist>>
    /\ UNCHANGED <<runHist, wfCalls>>
    /\ UNCHANGED twoRuns

\* Variant of the loop that goes on with the next map after a failure.
on_workflow_error_skips(exc) == "next"

\* nebuia_client.py 911-914: process_full_workflow is called without a
\* handler, so its NebuiaError leaves process_multiple_records.
on_workflow_error(exc) == "propagate"

\* nebuia_client.py 911-914: one round of the sequential loop.
BatchWorkflow ==
    /\ cpc = "loop"
    /\ workflows < Len(call.document_maps)
    /\ workflows' = workflows + 1
    /\ \E end \in workflow_outcomes(call.document_maps[workflows + 1], fs) :
         IF end = "complete"
         THEN /\ results' = Append(results, [status |-> "complete",
                                             record |-> workflows + 1])
              /\ UNCHANGED <<cpc, outcome>>
         ELSE IF on_workflow_error(end) = "propagate"
              THEN /\ outcome' = Raises(end)
                   /\ cpc' = "done"
                   /\ UNCHANGED results
              ELSE UNCHANGED <<cpc, outcome, results>>
    /\ UNCHANGED <<enable_curl_logging, call, curlLog, sent, response,
                   openHandles, opened, record_result, extracted_info>>
    /\ UNCHANGED <<pc, args, fs, locals, clock, result, raised, history,
                   fetchFailed, embedHist, verifyLog, waitHist>>
    /\ UNCHANGED <<runHist, wfCalls>>
    /\ UNCHANGED twoRuns

\* nebuia_client.py 916: the loop is over, results is returned.
BatchReturn ==
    /\ cpc = "loop"
    /\ workflows = Len(call.document_maps)
    /\ cpc' = "done"
    /\ outcome' = Returned
    /\ UNCHANGED <<enable_curl_logging, call, curlLog, sent, response,
                   openHandles, opened, results, workflows, record_result,
                   extracted_info>>
    /\ UNCHANGED <<pc, args, fs, locals, clock, result, raised, history,
                   fetchFailed, embedHist, verifyLog, waitHist>>
    /\ UNCHANGED <<runHist, wfCalls>>
    /\ UNCHANGED twoRuns

NextBatch ==
    \/ BatchCall
    \/ BatchWorkflow
    \/ BatchReturn

SpecBatch == InitBatch /\ [][NextBatch]_vars

(***************************************************************************)
(* extract_document_entities on its own, over every record with up to      *)
(* MaxDocs documents of up to MaxEntities entities each.                   *)
(***************************************************************************)

MaxDocs == 2

MaxEntities == 1

\* An entity of a document: it may lack the 'structure' key; a structure
\* is a dict that may hold name_to_show among its fields.
Entities ==
    {[has_structure |-> FALSE, structure |-> <<>>],
     [has_structure |-> TRUE,
      structure |-> <<[key |-> "name_to_show", val |-> "A"],
                      [key |-> "nombre", val |-> "A"]>>],
     [has_structure |-> TRUE,
      structure |-> <<[key |-> "nombre", val |-> "B"]>>]}

\* All lists of at most n elements of S.
RECURSIVE ListsOver(_, _)
ListsOver(S, n) ==
    IF n = 0 THEN {<<>>}
    ELSE ListsOver(S, n - 1) \cup
         {Append(l, e) : <<l, e>> \in {k \in ListsOver(S, n - 1) : Len(k) = n - 1} \X S}

\* What a document holds under 'document_type': nothing or a type.
DocumentTypeValues == {"absent", "acta_constitutiva", "actas_de_asamblea"}

\* The documents of a record: 'document_type' and 'entities' may be absent.
Documents ==
    {[document_type |-> t, has_entities |-> TRUE, entities |-> l]
        : <<t, l>> \in DocumentTypeValues \X ListsOver(Entities, MaxEntities)}
    \cup {[document_type |-> t, has_entities |-> FALSE, entities |-> <<>>]
            : t \in DocumentTypeValues}

\* The values of record_result: None, {}, a dict without 'documents', or a
\* record with its documents.
RecordResults ==
    {[kind |-> k, documents |-> <<>>] : k \in {"None", "empty", "no_documents"}}
    \cup {[kind |-> "record", documents |-> l] : l \in ListsOver(Documents, MaxDocs)}

InitExtract ==
    /\ HandlerIdle
    /\ fs = {}
    /\ enable_curl_logging = TRUE
    /\ call = [NoCall EXCEPT !.op = "extract_document_entities"]
    /\ cpc = "call"
    /\ curlLog = <<>>
    /\ sent = <<>>
    /\ response = NoResponse
    /\ outcome = NoOutcome
    /\ openHandles = {}
    /\ opened = 0
    /\ results = <<>>
    /\ workflows = 0
    /\ record_result \in RecordResults
    /\ extracted_info = <<>>

\* exec.py 495: document.get('document_type', 'unknown')
doc_type_of(document) ==
    IF document.document_type = "absent" THEN "unknown"
    ELSE document.document_type

\* exec.py 496: document.get('entities', [])
entities_of(document) ==
    IF document.has_entities THEN document.entities ELSE <<>>

\* Variant that leaves name_to_show in the copy.
strip_name_to_show_keeps(structure) == structure

\* exec.py 506-510: the copy of the structure without its name_to_show.
strip_name_to_show(structure) ==
    SelectSeq(structure, LAMBDA e : e.key # "name_to_show")

\* exec.py 503-513: the structures one document adds, in entity order.
RECURSIVE document_structures(_)
document_structures(entities) ==
    IF entities = <<>> THEN <<>>
    ELSE (IF Head(entities).has_structure
          THEN <<strip_name_to_show(Head(entities).structure)>>
          ELSE <<>>)
         \o document_structures(Tail(entities))

\* exec.py 499-500 and 513: the list of doc_type is created when the key is
\* new and extended otherwise.
extend_info(info, doc_type, structures) ==
    IF doc_type \in Keys(info)
    THEN [i \in 1..Len(info) |->
            IF info[i].key = doc_type
            THEN [key |-> doc_type, val |-> info[i].val \o structures]
            ELSE info[i]]
    ELSE Append(info, [key |-> doc_type, val |-> structures])

\* exec.py 494-513: the loop over the documents.
RECURSIVE extract_loop(_, _)
extract_loop(documents, info) ==
    IF documents = <<>> THEN info
    ELSE extract_loop(Tail(documents),
                      extend_info(info, doc_type_of(Head(documents)),
                                  document_structures(entities_of(Head(documents)))))

\* exec.py 476-515: NebuiaHandler.extract_document_entities.
extract_document_entities(record) ==
    IF record.kind \in {"None", "empty", "no_documents"}
    THEN <<>>
    ELSE extract_loop(record.documents, <<>>)

\* Variant in which name_to_show is deleted from the entity's own dict.
input_structure_after_in_place(structure) == strip_name_to_show(structure)

\* exec.py 506-510: entity['structure'].copy() is a new dict, and the del
\* acts on that copy: the entity's own structure keeps all its fields.
input_structure_after(structure) == structure

\* The entities of a document as the call leaves them.
entities_after_extract(entities) ==
    [j \in 1..Len(entities) |->
        IF entities[j].has_structure
        THEN [entities[j] EXCEPT
                 !.structure = input_structure_after(entities[j].structure)]
        ELSE entities[j]]

\* exec.py 494-513: record_result as the call leaves it.
record_after_extract(record) ==
    IF record.kind # "record" THEN record
    ELSE [record EXCEPT !.documents =
            [i \in 1..Len(record.documents) |->
                [record.documents[i] EXCEPT
                    !.entities = entities_after_extract(record.documents[i].entities)]]]

\* One call of extract_document_entities: the first one, or a second one
\* on the same record.
Extract ==
    /\ cpc \in {"call", "done"}
    /\ call.op = "extract_document_entities"
    /\ extracted_info' = extract_document_entities(record_result)
    /\ record_result' = record_after_extract(record_result)
    /\ outcome' = [kind |-> "body", status_code |-> 0, body |-> "extracted_info"]
    /\ cpc' = IF cpc = "call" THEN "done" ELSE "again"
    /\ UNCHANGED <<enable_curl_logging, call, curlLog, sent, response,
                   openHandles, opened, results, workflows>>
    /\ UNCHANGED <<pc, args, fs, locals, clock, result, raised, history,
                   fetchFailed, embedHist, verifyLog, waitHist>>
    /\ UNCHANGED <<runHist, wfCalls>>
    /\ UNCHANGED twoRuns

NextExtract == Extract

SpecExtract == InitExtract /\ [][NextExtract]_vars

(***************************************************************************)
(* process_full_workflow on its own: one document map, the default polling *)
(* interval and a timeout of up to MaxPollBudget intervals.  Each client   *)
(* call is one step and is written to wfCalls with the way it ended.       *)
(***************************************************************************)

InitWorkflow ==
    /\ pc = "client"
    /\ args \in {[IdleArgs EXCEPT !.timeout = k * DefaultPollingInterval]
                   : k \in 0..MaxPollBudget}
    /\ InitLocals
    /\ fs = BatchFiles
    /\ enable_curl_logging = TRUE
    /\ call \in {[NoCall EXCEPT !.op = "process_full_workflow",
                                !.document_maps = <<m>>] : m \in BatchMaps}
    /\ cpc = "call"
    /\ curlLog = <<>>
    /\ sent = <<>>
    /\ response = NoResponse
    /\ outcome = NoOutcome
    /\ openHandles = {}
    /\ opened = 0
    /\ results = <<>>
    /\ workflows = 0
    /\ record_result = [kind |-> "None", documents |-> <<>>]
    /\ extracted_info = <<>>

\* The document_map argument.
document_map == call.document_maps[1]

\* A client call of the workflow and the way it ended: "returned" or
\* "raised", and for a record fetch that returned, the status it read.
WfCall(op, doc_type, end) == [op |-> op, doc_type |-> doc_type, end |-> end]

\* Variant of the handler that lets the exception through as it is.
workflow_wraps_nebuia_only(exc) ==
    IF IsSubclass(exc, "NebuiaError") THEN "NebuiaError" ELSE exc

\* nebuia_client.py 874-876: `except Exception` turns whatever was raised
\* into NebuiaError.
workflow_wraps(exc) ==
    IF IsSubclass(exc, "Exception") THEN "NebuiaError" ELSE exc

\* An exception inside process_full_workflow's try block.
WorkflowRaise(exc) ==
    /\ outcome' = Raises(workflow_wraps(exc))
    /\ cpc' = "done"

\* Variant in which a failed upload is logged and the loop goes on.
workflow_on_upload_error_skips(exc) == "next"

\* nebuia_client.py 860-862: upload_document is called without a handler
\* of its own inside the loop.
workflow_on_upload_error(exc) == "raise"

\* After k uploads: the next entry of the map, or on to
\* wait_for_record_completion, which reads its start time (803).
WorkflowAfterUpload(k) ==
    IF k < Len(document_map)
    THEN cpc' = "wf_upload" /\ UNCHANGED <<start_time, outcome>>
    ELSE cpc' = "wf_wait" /\ start_time' = clock /\ UNCHANGED outcome

\* nebuia_client.py 855-857: create_record.
WorkflowCreate ==
    /\ cpc = "call"
    /\ call.op = "process_full_workflow"
    /\ \/ /\ \E exc \in RemoteExceptions : WorkflowRaise(exc)
          /\ wfCalls' = <<WfCall("create_record", "none", "raised")>>
          /\ UNCHANGED start_time
       \/ /\ wfCalls' = <<WfCall("create_record", "none", "returned")>>
          /\ WorkflowAfterUpload(0)
    /\ UNCHANGED <<enable_curl_logging, call, curlLog, sent, response,
                   openHandles, opened, results, workflows, record_result,
                   extracted_info>>
    /\ UNCHANGED <<pc, args, fs, valid_documents, document_ids, idx, clock,
                   pending_documents, embedding_success, verification_results,
                   verification_passed, result, raised, history, fetchFailed,
                   embedHist, verifyLog, waitHist, runHist>>
    /\ UNCHANGED twoRuns

\* The uploads made so far.
UploadsMade == Len(SelectSeq(wfCalls, LAMBDA c : c.op = "upload_document"))

\* nebuia_client.py 860-862: upload_document for the next entry of the
\* map; the file checks of upload_document come first.
WorkflowUpload ==
    /\ cpc = "wf_upload"
    /\ LET k == UploadsMade + 1
           entry == document_map[k]
           check == upload_precheck(entry.val, fs)
       IN \/ /\ \E exc \in IF check # "ok" THEN {check} ELSE RemoteExceptions :
                  IF workflow_on_upload_error(exc) = "raise"
                  THEN WorkflowRaise(exc) /\ UNCHANGED start_time
                  ELSE WorkflowAfterUpload(k)
             /\ wfCalls' = Append(wfCalls,
                                  WfCall("upload_document", entry.key, "raised"))
          \/ /\ check = "ok"
             /\ wfCalls' = Append(wfCalls,
                                  WfCall("upload_document", entry.key, "returned"))
             /\ WorkflowAfterUpload(k)
    /\ UNCHANGED <<enable_curl_logging, call, curlLog, sent, response,
                   openHandles, opened, results, workflows, record_result,
                   extracted_info>>
    /\ UNCHANGED <<pc, args, fs, valid_documents, document_ids, idx, clock,
                   pending_documents, embedding_success, verification_results,
                   verification_passed, result, raised, history, fetchFailed,
                   embedHist, verifyLog, waitHist, runHist>>
    /\ UNCHANGED twoRuns

\* nebuia_client.py 805-827 and 865-872: one round of
\* wait_for_record_completion inside the workflow: past the budget
\* TimeoutError; otherwise the record is fetched and a complete one is
\* returned, an error status raises NebuiaError, any other status sleeps.
WorkflowPoll ==
    /\ cpc = "wf_wait"
    /\ IF ~within_budget(clock, start_time, args.timeout)
       THEN /\ WorkflowRaise("TimeoutError")
            /\ UNCHANGED <<wfCalls, results, clock, pollSleeps>>
       ELSE \/ /\ \E exc \in RemoteExceptions : WorkflowRaise(exc)
               /\ wfCalls' = Append(wfCalls,
                                    WfCall("get_record_details", "none", "raised"))
               /\ UNCHANGED <<results, clock, pollSleeps>>
            \/ \E snap \in PollSnapshots :
                 /\ wfCalls' = Append(wfCalls,
                                      WfCall("get_record_details", "none",
                                             current_status(snap)))
                 /\ CASE poll_outcome(current_status(snap)) = "return" ->
                           /\ results' = <<snap>>
                           /\ outcome' = Returned
                           /\ cpc' = "done"
                           /\ UNCHANGED <<clock, pollSleeps>>
                      [] poll_outcome(current_status(snap)) = "raise" ->
                           /\ WorkflowRaise("NebuiaError")
                           /\ UNCHANGED <<results, clock, pollSleeps>>
                      [] OTHER ->
                           /\ PollSleep
                           /\ UNCHANGED <<results, outcome, cpc>>
    /\ UNCHANGED <<enable_curl_logging, call, curlLog, sent, response,
                   openHandles, opened, workflows, record_result,
                   extracted_info>>
    /\ UNCHANGED <<pc, args, fs, locals, result, raised, history, fetchFailed,
                   embedHist, verifyLog, waitOutcome, pollLog, callbackLog,
                   fetchErrors, runHist>>
    /\ UNCHANGED twoRuns

NextWorkflow ==
    \/ WorkflowCreate
    \/ WorkflowUpload
    \/ WorkflowPoll

SpecWorkflow == InitWorkflow /\ [][NextWorkflow]_vars

(***************************************************************************)
(* Two concurrent calls of process_documents on one handler                *)
(* (specification SpecTwoRuns).  The handler object has two fields, logger *)
(* and client, assigned in __init__ only (exec.py 34, 37); everything      *)
(* process_documents and its helpers compute is held in locals of the call *)
(* (exec.py 193-474).  Each call is answered by the service on its own     *)
(* record; the logger is the one thing both calls write to.                *)
(***************************************************************************)

\* The two calls.
RunIds == {1, 2}

\* The exception a remote call of these runs can raise.
TwoRunExceptions == {"NebuiaError"}

\* The validated document lists of the two calls.
TwoRunDocuments == {<<"acta_constitutiva">>}

\* Both calls: wait_for_completion False, a status-check budget of one round.
TwoRunArgs ==
    [IdleArgs EXCEPT !.wait_for_completion = FALSE,
                     !.status_check_timeout = StatusCheckInterval]

\* An answer of the service: a body about a record, or a raised exception.
Answer(val, record) == [raised |-> FALSE, val |-> val, record |-> record]
Raise(exc, record) == [raised |-> TRUE, val |-> exc, record |-> record]

\* Variant of where a call keeps its locals: one place for every call, as an
\* attribute of the handler would be.
frame_of_on_handler(run) == 1

\* Where a call keeps its locals: in its own frame.
frame_of(run) == run

\* exec.py 193-229: the locals of a call that has validated its documents
\* and is about to create its record.
InitialFrame(documents, auto_process) ==
    [pc |-> "create_record",
     valid_documents |-> documents,
     auto_process |-> auto_process,
     record_id |-> 0,
     idx |-> 0,
     document_ids |-> <<>>,
     elapsed |-> 0,
     pending_documents |-> <<>>,
     verification_results |-> <<>>,
     verification_passed |-> TRUE,
     result |-> Unset,
     raised |-> FALSE,
     calls |-> <<>>]

\* `return r` of process_documents.
FrameReturn(f, r) == [f EXCEPT !.pc = "done", !.result = r]

\* An exception reaches process_documents' try block (exec.py 272-274).
FramePropagate(f, exc) ==
    IF process_documents_catches(exc)
    THEN FrameReturn(f, NoneResult)
    ELSE [f EXCEPT !.pc = "done", !.raised = TRUE]

\* The steps of a call between two remote calls: the loop test and the sleep
\* of _wait_for_embedding (exec.py 349-371), the start of
\* _verify_all_documents and its skip of a document without id (399-404).
RECURSIVE Advance(_)
Advance(f) ==
    CASE f.pc = "embed_head" ->
           IF within_budget(f.elapsed, 0, TwoRunArgs.status_check_timeout)
           THEN Advance([f EXCEPT !.pc = "embed_check", !.idx = 1,
                                  !.pending_documents = <<>>])
           ELSE [f EXCEPT !.pc = after_embedding(FALSE), !.idx = 0]
      [] f.pc = "embed_sleep" ->
           Advance([f EXCEPT !.pc = "embed_head",
                             !.elapsed = @ + TwoRunArgs.status_check_interval])
      [] f.pc = "verify" ->
           IF f.idx > Len(f.document_ids)
           THEN [f EXCEPT !.pc = "post_verify_fetch", !.idx = 0]
           ELSE IF has_document_id(f.document_ids[f.idx].val)
                THEN f
                ELSE Advance([f EXCEPT !.idx = @ + 1])
      [] OTHER -> f

\* exec.py 305-322: on to the next valid document; after the last one the
\* empty-mapping test, then _wait_for_embedding.
FrameUploadNext(f) ==
    IF f.idx < Len(f.valid_documents)
    THEN [f EXCEPT !.pc = "upload", !.idx = @ + 1]
    ELSE IF after_uploads(f.document_ids) = "return_none"
         THEN FrameReturn(f, NoneResult)
         ELSE Advance([f EXCEPT !.pc = "embed_head", !.elapsed = 0])

\* exec.py 311-314: the uploaded document as the listing of the record shows
\* it, tracked under its type; the entry is a document of that record.
FrameTrack(ids, doc_type, listing, record) ==
    LET tracked == track_document(<<>>, doc_type, listing)
    IN ids \o [i \in 1..Len(tracked) |->
                 [key |-> tracked[i].key, val |-> tracked[i].val,
                  record |-> record]]

\* exec.py 317-318: an exception inside the upload loop.
FrameUploadRaise(f, exc) ==
    IF upload_loop_catches(exc) THEN FrameUploadNext(f)
    ELSE FramePropagate(f, exc)

\* exec.py 352-371: after one status answer; the last document of a round
\* ends the wait or sleeps.
FrameEmbedNext(f) ==
    IF f.idx < Len(f.document_ids)
    THEN [f EXCEPT !.idx = @ + 1]
    ELSE IF f.pending_documents = <<>>
         THEN Advance([f EXCEPT !.pc = after_embedding(TRUE), !.idx = 1,
                                !.verification_results = <<>>,
                                !.verification_passed = TRUE])
         ELSE Advance([f EXCEPT !.pc = "embed_sleep", !.idx = 0])

\* exec.py 407-411: store the verification of the current document.
FrameVerifyStore(f, pair, record) ==
    Advance([f EXCEPT
        !.verification_results =
            Append(@, [key |-> f.document_ids[f.idx].key, val |-> pair[2],
                       record |-> record]),
        !.verification_passed = IF pair[1] THEN @ ELSE FALSE,
        !.idx = @ + 1])

\* The body of a verification answer.
VerifyBodyOf(val) == CHOOSE body \in VerifyBodies : body.status = val

\* process_documents and its helpers from one remote call to the next: the
\* call at f.pc is made and answered by a; the locals after it.
StepFrame(f, a) ==
    LET g == [f EXCEPT !.calls = Append(@, f.pc)]
    IN CASE f.pc = "create_record" ->
              IF a.raised THEN FramePropagate(g, a.val)
              ELSE IF record_id_ok(a.val = "id")
                   THEN [g EXCEPT !.pc = "upload", !.idx = 1,
                                  !.record_id = a.record,
                                  !.document_ids = <<>>]
                   ELSE FrameReturn(g, NoneResult)
         [] f.pc = "upload" ->
              IF a.raised THEN FrameUploadRaise(g, a.val)
              ELSE [g EXCEPT !.pc = "upload_fetch"]
         [] f.pc = "upload_fetch" ->
              IF a.raised THEN FrameUploadRaise(g, a.val)
              ELSE FrameUploadNext(
                     [g EXCEPT !.document_ids =
                        FrameTrack(@, f.valid_documents[f.idx], a.val,
                                   a.record)])
         [] f.pc = "embed_check" ->
              FrameEmbedNext(
                [g EXCEPT !.pending_documents =
                   IF a.raised
                   THEN note_status_error(@, f.document_ids[f.idx].key)
                   ELSE note_status(@, f.document_ids[f.idx].key, a.val)])
         [] f.pc = "timeout_fetch" ->
              IF a.raised THEN FramePropagate(g, a.val)
              ELSE FrameReturn(g, PlainRecordResult([status |-> a.val]))
         [] f.pc = "verify" ->
              FrameVerifyStore(g, IF a.raised
                                  THEN handler_verify_on_error(a.val)
                                  ELSE handler_verify_on_body(VerifyBodyOf(a.val)),
                               a.record)
         [] f.pc = "post_verify_fetch" ->
              IF a.raised THEN FramePropagate(g, a.val)
              ELSE IF should_process(f.auto_process, f.verification_passed)
                   THEN [g EXCEPT !.pc = "create_job"]
                   ELSE FrameReturn(g, RecordResult([status |-> a.val],
                                                    f.verification_results))
         [] f.pc = "create_job" ->
              IF a.raised
              THEN IF process_record_catches(a.val)
                   THEN [g EXCEPT !.pc = process_record_on_caught(a.val)]
                   ELSE FramePropagate(g, a.val)
              ELSE [g EXCEPT !.pc = after_job_created(
                                      TwoRunArgs.wait_for_completion)]
         [] f.pc = "final_fetch" ->
              IF a.raised THEN FramePropagate(g, a.val)
              ELSE FrameReturn(g, RecordResult([status |-> a.val],
                                               f.verification_results))

\* The bodies the service can give to the call made at a position.
BodiesAt(position) ==
    CASE position = "create_record" -> {"id", "no_id"}
      [] position = "upload" -> {"uploaded"}
      [] position = "upload_fetch" -> Listings
      [] position = "embed_check" -> EmbeddingStatuses
      [] position = "verify" -> {body.status : body \in VerifyBodies}
      [] position = "create_job" -> {"job"}
      [] OTHER -> RecordStatuses

\* What the service can answer to the call a frame is about to make on
\* behalf of a run: create_record makes the run's own record, every other
\* call is about the record the request names.
AnswersTo(f, run) ==
    LET record == IF f.pc = "create_record" THEN run ELSE f.record_id
    IN {Answer(val, record) : val \in BodiesAt(f.pc)}
       \cup {Raise(exc, record) : exc \in TwoRunExceptions}

InitTwoRuns ==
    /\ HandlerIdle
    /\ fs = {}
    /\ ClientIdle

\* A thread calls process_documents: validation passes and the call's
\* locals come into being (exec.py 193-229).
RunCall ==
    /\ pc = "client"
    /\ \E run \in RunIds \ DOMAIN answered :
       \E documents \in TwoRunDocuments, auto_process \in BOOLEAN :
         /\ runs' = (frame_of(run) :> InitialFrame(documents, auto_process))
                    @@ runs
         /\ answered' = (run :> <<>>) @@ answered
         /\ logSink' = logSink \cup {[run |-> run, op |-> "process_documents"]}
    /\ UNCHANGED <<pc, args, fs, locals, clock, result, raised, history>>
    /\ UNCHANGED <<fetchFailed, embedHist, verifyLog, waitHist>>
    /\ UNCHANGED clientVars
    /\ UNCHANGED <<runHist, wfCalls>>

\* One of the calls makes its next remote call and runs on to the one after
\* it; the logger records the call.
RunStep ==
    /\ pc = "client"
    /\ \E run \in DOMAIN answered :
         /\ frame_of(run) \in DOMAIN runs
         /\ runs[frame_of(run)].pc # "done"
         /\ \E a \in AnswersTo(runs[frame_of(run)], run) :
              /\ runs' = [runs EXCEPT ![frame_of(run)] = StepFrame(@, a)]
              /\ answered' = [answered EXCEPT ![run] = Append(@, a)]
         /\ logSink' = logSink \cup
                          {[run |-> run, op |-> runs[frame_of(run)].pc]}
    /\ UNCHANGED <<pc, args, fs, locals, clock, result, raised, history>>
    /\ UNCHANGED <<fetchFailed, embedHist, verifyLog, waitHist>>
    /\ UNCHANGED clientVars
    /\ UNCHANGED <<runHist, wfCalls>>

NextTwoRuns == RunCall \/ RunStep

SpecTwoRuns == InitTwoRuns /\ [][NextTwoRuns]_vars

(***************************************************************************)
(* Properties of process_documents (specification Spec).                   *)
(***************************************************************************)

\* C1: create_processing_job is called only if auto_process is true and
\* every verification performed in the run returned status true: each
\* verify call has its entry in verification_results and every entry is a
\* body with status true (none failing, none recorded from a raised call).
C1_JobOnlyAfterAllVerificationsPassed ==
    jobCount > 0 =>
        /\ args.auto_process
        /\ \A d \in DocTypes :
             verifyCount[d] > 0 => d \in Keys(verification_results)
        /\ \A i \in 1..Len(verification_results) :
             verification_results[i].val = VerifyPass

\* A job was created after both documents were verified.
C1_Witness ==
    /\ jobCount > 0
    /\ Len(verification_results) = 2
    /\ \A d \in DocTypes : verifyCount[d] = 1

\* C2: when create_processing_job is called, every document whose upload
\* call returned in this run has a verification result with status true.
C2_UploadedDocumentsAllVerified ==
    jobCount > 0 =>
        \A d \in uploaded :
            /\ d \in Keys(verification_results)
            /\ Lookup(verification_results, d) = VerifyPass

\* C3: process_documents never raises: whatever the remote calls do, the
\* run ends by returning None or a record mapping.
C3_NeverRaises ==
    /\ ~raised
    /\ pc = "done" => result.kind \in {"None", "record"}

\* The fallback fetch after job creation raised and the run returned None.
C3_Witness ==
    /\ pc = "done"
    /\ jobCount > 0
    /\ result = NoneResult
    /\ ~raised

\* The pipeline stages in order.
StageRank(op) ==
    CASE op = "create_record" -> 1
      [] op = "upload_document" -> 2
      [] op = "get_document_status" -> 3
      [] op = "verify_document_type" -> 4
      [] op = "create_processing_job" -> 5
      [] op = "wait_for_record_completion" -> 6
      [] OTHER -> 0

\* C4: the stage calls occur in pipeline order and no stage is re-entered:
\* the latest stage call is never of an earlier stage than a call made
\* before it, uploads need the record, polling needs the job, and the job
\* is created at most once.
C4_StagesInPipelineOrder ==
    /\ \A op \in seen : StageRank(op) <= StageRank(lastStage)
    /\ "upload_document" \in seen => "create_record" \in seen
    /\ "wait_for_record_completion" \in seen => "create_processing_job" \in seen
    /\ jobCount <= 1

\* A run that went through every stage, down to a completion poll.
C4_Witness ==
    /\ lastStage = "wait_for_record_completion"
    /\ {"create_record", "upload_document", "get_document_status",
        "verify_document_type", "create_processing_job"} \subseteq seen

\* The upload loop has been run to its end.
UploadLoopOver == uploadTried # {} /\ pc \notin {"upload", "upload_fetch"}

\* C5: a failed upload does not abort the run: once the loop is over every
\* valid document type has been uploaded (tried), and a type whose upload
\* failed is not tracked, never status-checked, never verified and has no
\* key in the returned verification_results.
C5_FailedUploadIsDroppedOnly ==
    /\ UploadLoopOver => uploadTried = Keys(valid_documents)
    /\ \A d \in uploadTried \ uploaded :
         /\ d \notin Keys(document_ids)
         /\ d \notin statusChecked
         /\ verifyCount[d] = 0
         /\ d \notin Keys(verification_results)
         /\ d \notin Keys(result.vr)

\* The first upload failed, the second document went through and the run
\* returned a record with that document's verification.
C5_Witness ==
    /\ pc = "done"
    /\ Len(valid_documents) = 2
    /\ valid_documents[1].key \in uploadTried \ uploaded
    /\ result.kind = "record"
    /\ Keys(result.vr) = {valid_documents[2].key}

\* The calls that follow the upload stage.
LaterStageOps ==
    {"get_document_status", "verify_document_type", "create_processing_job",
     "wait_for_record_completion"}

\* C6: if no upload succeeds the run returns None and makes no embedding
\* status check, no verification call and no create_processing_job call.
C6_NoUploadNoFurtherStage ==
    uploaded = {} =>
        /\ seen \cap LaterStageOps = {}
        /\ pc = "done" => result = NoneResult

\* Both uploads were tried, both failed, the run returned None.
C6_Witness ==
    /\ pc = "done"
    /\ uploaded = {}
    /\ Cardinality(uploadTried) = 2
    /\ result = NoneResult

\* C7: if validate_documents leaves no valid entry, process_documents
\* returns None at once, without raising and without any remote call.
C7_NoValidDocumentNoRemoteCall ==
    (pc # "start" /\ valid_documents = <<>>) =>
        /\ pc = "done"
        /\ result = NoneResult
        /\ ~raised
        /\ seen = {}

\* Documents were given, none was valid, the run is over.
C7_Witness ==
    /\ pc = "done"
    /\ Len(args.documents) = 2
    /\ valid_documents = <<>>

\* C9 as stated: after _wait_for_embedding returned false the run returns
\* the record snapshot fetched at that point, without verification_results,
\* and calls neither verify_document_type nor create_processing_job.
C9_TimeoutReturnsPlainSnapshot ==
    embedding_success = "False" =>
        /\ "verify_document_type" \notin seen
        /\ "create_processing_job" \notin seen
        /\ pc = "done" => /\ lastFetched \in Snapshots
                          /\ result = PlainRecordResult(lastFetched)

\* C9, amended: the same, except that the run returns None when that fetch
\* of the record raises (no snapshot was obtained).
C9_TimeoutReturnsPlainSnapshotOrNone ==
    embedding_success = "False" =>
        /\ "verify_document_type" \notin seen
        /\ "create_processing_job" \notin seen
        /\ pc = "done" =>
             IF lastFetched \in Snapshots
             THEN result = PlainRecordResult(lastFetched)
             ELSE result = NoneResult /\ ~raised

\* Status checks were made, the wait timed out, a plain record came back.
C9_Witness ==
    /\ pc = "done"
    /\ embedding_success = "False"
    /\ statusChecked # {}
    /\ result.kind = "record"
    /\ ~result.has_vr

\* _verify_all_documents has returned.
VerificationOver ==
    embedding_success = "True" /\ pc # "verify"

\* C10: once _wait_for_embedding returned true, every tracked document is
\* verified exactly once and verification_results has exactly one key for
\* each tracked document type.
C10_EveryTrackedDocumentVerifiedOnce ==
    VerificationOver =>
        /\ \A d \in Keys(document_ids) : verifyCount[d] = 1
        /\ KeySeq(verification_results) = KeySeq(document_ids)

(***************************************************************************)
(* Properties of validate_documents (specification SpecValidate).          *)
(***************************************************************************)

\* The spellings of the extension that count as .pdf.
PdfSpellings ==
    {<<".", p, d, f>> : <<p, d, f>> \in {"p", "P"} \X {"d", "D"} \X {"f", "F"}}

\* The string ends in a .pdf extension that follows a non-empty file name.
EndsInPdfExtension(s) ==
    /\ Len(s) >= 5
    /\ SubSeq(s, Len(s) - 3, Len(s)) \in PdfSpellings
    /\ s[Len(s) - 4] # "/"

\* The string names a file of the set files, directly or behind "./".
NamesFileOf(s, files) ==
    \E f \in files : s = f \/ s = <<".", "/">> \o f

\* An entry whose path exists and carries a .pdf extension in any case.
IsValidEntry(s, files) == NamesFileOf(s, files) /\ EndsInPdfExtension(s)

\* The entries of a dict that are valid, in order.
RECURSIVE ValidEntries(_, _)
ValidEntries(d, files) ==
    IF d = <<>> THEN <<>>
    ELSE IF IsValidEntry(Head(d).val, files)
         THEN <<Head(d)>> \o ValidEntries(Tail(d), files)
         ELSE ValidEntries(Tail(d), files)

\* C8: validate_documents returns exactly the entries whose path exists
\* and whose extension is .pdf in any letter case: the same keys in the
\* same order, each with the path of the same file.
C8_ValidateKeepsExactlyExistingPdfs ==
    pc = "validated" =>
        LET expected == ValidEntries(args.documents, fs)
        IN /\ KeySeq(valid_documents) = KeySeq(expected)
           /\ \A i \in 1..Len(valid_documents) :
                NamesFileOf(expected[i].val, {valid_documents[i].val})

\* Of two entries, the missing file was dropped and the upper-case .PDF kept.
C8_Witness ==
    /\ pc = "validated"
    /\ Len(args.documents) = 2
    /\ \E i \in 1..2 : args.documents[i].val \notin fs
    /\ Len(valid_documents) = 1
    /\ valid_documents[1].val = PathUpperPdf

(***************************************************************************)
(* Verification outcomes and the return values that depend on them         *)
(* (specification Spec).                                                   *)
(***************************************************************************)

\* C11: a verify_document_type call that raises is not propagated: the
\* document type gets a verification_results entry with status false and
\* the overall outcome is false; a response whose status is absent or is
\* anything but the value true lowers the overall outcome as well.
C11_RaisedOrNonTrueVerificationFails ==
    \A d \in DocTypes :
        /\ verifyLog[d].kind = "raised" =>
               /\ ~raised
               /\ d \in Keys(verification_results)
               /\ Lookup(verification_results, d).status = "False"
               /\ verification_passed = FALSE
        /\ (verifyLog[d].kind = "body" /\ verifyLog[d].body.status # "True") =>
               verification_passed = FALSE

C11_Witness ==
    /\ pc = "done"
    /\ result.has_vr
    /\ \E d \in DocTypes :
         /\ verifyLog[d].kind = "raised"
         /\ Lookup(result.vr, d) = VerifyError
    /\ \E d \in DocTypes : verifyLog[d] = Answered(VerifyTruthy)

\* Some verification of the run did not pass.
SomeVerificationFailed ==
    \E d \in DocTypes :
        \/ verifyLog[d].kind = "raised"
        \/ verifyLog[d].kind = "body" /\ verifyLog[d].body.status # "True"

\* process_documents returned after a verification phase that does not
\* lead to a job.
ReturnedWithoutJobDecision ==
    /\ pc = "done"
    /\ embedding_success = "True"
    /\ SomeVerificationFailed \/ ~args.auto_process

\* vr holds, for every document the service answered for, that answer.
HoldsServiceResults(vr) ==
    \A d \in DocTypes :
        verifyLog[d].kind = "body" =>
            d \in Keys(vr) /\ Lookup(vr, d) = verifyLog[d].body

\* The returned value is the fetched record with the results attached.
ReturnsRecordWithResults ==
    /\ result.kind = "record"
    /\ result.status = lastFetched.status
    /\ result.has_vr
    /\ result.vr = verification_results
    /\ HoldsServiceResults(result.vr)

\* C12 as stated: when some verification fails or auto_process is false,
\* process_documents creates no job, raises nothing and returns the record
\* snapshot with verification_results holding the service's result for
\* every verified document.
C12_NoJobReturnsRecordWithResults ==
    ReturnedWithoutJobDecision =>
        /\ jobCount = 0
        /\ ~raised
        /\ ReturnsRecordWithResults

\* C12 amended: when some verification fails or auto_process is false,
\* process_documents creates no job, raises nothing and returns the record
\* snapshot with verification_results holding the service's result for
\* every verified document, or None when the get_record_details call
\* after verification raises.
C12_NoJobReturnsRecordWithResultsOrNone ==
    ReturnedWithoutJobDecision =>
        /\ jobCount = 0
        /\ ~raised
        /\ IF fetchFailed THEN result = NoneResult
           ELSE ReturnsRecordWithResults

C12_Witness ==
    /\ ReturnedWithoutJobDecision
    /\ args.auto_process
    /\ ~fetchFailed
    /\ \E d \in Keys(result.vr) : Lookup(result.vr, d) = VerifyFail
    /\ \E d \in Keys(result.vr) : Lookup(result.vr, d) = VerifyPass

\* The completion wait ended in a timeout or in a record with status error.
WaitFailed == waitOutcome \in {"timed_out", "record_failed"}

\* C13 as stated: when the completion wait ends in a timeout or in a remote
\* processing failure, _process_record does not propagate the error: it
\* fetches the latest record snapshot and returns it with
\* verification_results attached.
C13_FailedWaitReturnsLatestSnapshot ==
    WaitFailed =>
        /\ ~raised
        /\ pc \in {"final_fetch", "done"}
        /\ pc = "done" =>
               /\ ~fetchFailed
               /\ result = RecordResult(lastFetched, verification_results)

\* C13 amended: when the completion wait ends in a timeout or in a remote
\* processing failure, _process_record does not propagate that error: it
\* fetches the latest record snapshot and returns it with
\* verification_results attached; when that fetch raises, the exception
\* leaves _process_record and process_documents returns None.
C13_FailedWaitReturnsLatestSnapshotOrNone ==
    WaitFailed =>
        /\ ~raised
        /\ pc \in {"final_fetch", "done"}
        /\ pc = "done" =>
               IF fetchFailed THEN result = NoneResult
               ELSE result = RecordResult(lastFetched, verification_results)

C13_Witness ==
    /\ pc = "done"
    /\ waitOutcome = "timed_out"
    /\ pollLog # <<>>
    /\ ~fetchFailed
    /\ result.kind = "record"
    /\ result.has_vr

\* Every tracked document was verified and the service answered status true.
AllTrackedPassed ==
    \A d \in Keys(document_ids) :
        verifyLog[d].kind = "body" /\ verifyLog[d].body.status = "True"

\* C14: in a run where at least one upload succeeds, every tracked document
\* reaches embedding status complete in time and passes verification and
\* auto_process is true, a processing job is created, and when the record
\* then reaches status complete within the wait timeout the returned record
\* is that complete snapshot with verification_results whose keys are
\* exactly the uploaded document types, each with status true.
C14_CompleteRunReturnsResultsForUploads ==
    (/\ pc = "done"
     /\ uploaded # {}
     /\ embedding_success = "True"
     /\ AllTrackedPassed
     /\ args.auto_process
     /\ waitOutcome = "returned")
    => /\ jobCount >= 1
       /\ result.kind = "record"
       /\ result.status = "complete"
       /\ result.has_vr
       /\ Keys(result.vr) = uploaded
       /\ \A d \in Keys(result.vr) : Lookup(result.vr, d).status = "True"

(***************************************************************************)
(* Properties of _wait_for_embedding (specification SpecEmbed).            *)
(***************************************************************************)

\* _wait_for_embedding has returned.
EmbeddingReturned == embedding_success # "unset"

\* time.time() - start_time of the running wait loop.
Elapsed == clock - start_time

\* C15: _wait_for_embedding returns true if and only if every tracked
\* document's status reaches complete within the timeout measured from loop
\* start, and returns false only when the time budget has expired.
C15_TrueIffEveryDocumentSeenComplete ==
    EmbeddingReturned =>
        /\ embedding_success = "True" <=> seenComplete = Keys(document_ids)
        /\ embedding_success = "False" =>
               Elapsed >= args.status_check_timeout

\* C16 as stated: whatever the interval and timeout, the status of each
\* tracked document is checked at least once before the first sleep and
\* before the function returns.
C16_EveryDocumentCheckedBeforeSleepAndReturn ==
    (pc = "embed_sleep" \/ EmbeddingReturned) =>
        statusChecked = Keys(document_ids)

\* C16 amended: for every call with a timeout greater than zero, whatever
\* the interval, the status of each tracked document is checked at least
\* once before the first sleep and before the function returns; with a
\* timeout of zero the function returns false without a status check.
C16_EveryDocumentCheckedWhenTimeoutPositive ==
    /\ pc = "embed_sleep" => statusChecked = Keys(document_ids)
    /\ EmbeddingReturned =>
           IF args.status_check_timeout > 0
           THEN statusChecked = Keys(document_ids)
           ELSE statusChecked = {} /\ embedding_success = "False"

C16_Witness ==
    /\ embedding_success = "False"
    /\ args.status_check_timeout > 0
    /\ Len(document_ids) = 2
    /\ statusChecked = Keys(document_ids)

\* The round's pending list has an entry for doc_type.
IsPending(doc_type) ==
    \E i \in 1..Len(pending_documents) : pending_documents[i][1] = doc_type

\* C17: a status check that raises never makes _wait_for_embedding raise
\* and never fails the document at once: the document is pending for that
\* round, every round queries every tracked document again, false is
\* returned only past the timeout, and a round in which a check raised
\* never ends the wait with true.
C17_RaisedCheckOnlyKeepsDocumentPending ==
    /\ checkRaised => ~raised /\ pc # "done"
    /\ \A d \in roundRaised : IsPending(d)
    /\ (pc = "embed_sleep" \/ embedding_success = "True") =>
           roundChecked = Keys(document_ids)
    /\ embedding_success = "True" => roundRaised = {}
    /\ (checkRaised /\ embedding_success = "False") =>
           Elapsed >= args.status_check_timeout

\* A check raised in one round and a later round found everything complete.
C17_Witness ==
    /\ checkRaised
    /\ embedding_success = "True"
    /\ Len(document_ids) = 2

\* C18: a document whose status was observed as complete is never queried
\* again: later rounds query the still-pending documents only.
C18_CompleteDocumentNotQueriedAgain ==
    [][pc = "embed_check" => document_ids[idx].key \notin seenComplete]_vars

\* C19: there is no per-item early exit: a document whose check keeps
\* failing or keeps reporting a status other than complete never lets the
\* wait return true, and false is returned only once the elapsed time has
\* reached the timeout.
C19_FalseOnlyOnceTimeoutElapsed ==
    /\ embedding_success = "False" => Elapsed >= args.status_check_timeout
    /\ embedding_success = "True" => seenComplete = Keys(document_ids)
    /\ (pc = "embed_sleep" /\ pending_documents # <<>>) => ~EmbeddingReturned

\* A document reported status error in every round of a wait that lasted
\* at least two rounds and then timed out.
C19_Witness ==
    /\ embedding_success = "False"
    /\ clock > start_time
    /\ args.status_check_timeout >= 2
    /\ \E i \in 1..Len(pending_documents) :
         /\ pending_documents[i][2] = "error"
         /\ pending_documents[i][1] \notin seenComplete
    /\ ~checkRaised

(***************************************************************************)
(* Properties of wait_for_record_completion (specification SpecWait).      *)
(***************************************************************************)

\* A status on which the polling loop goes on.
NonTerminal(status) == status \notin {"complete", "error"}

AllNonTerminal(log) == \A i \in 1..Len(log) : NonTerminal(log[i])

\* The poll that ended the wait read status `last`, every earlier poll read
\* a non-terminal status, and each earlier poll was followed by one sleep.
EndedOnFirst(last) ==
    /\ pollLog # <<>>
    /\ pollLog[Len(pollLog)] = last
    /\ AllNonTerminal(SubSeq(pollLog, 1, Len(pollLog) - 1))
    /\ Len(pollLog) = pollSleeps + 1

\* The three exits of the polling loop.
LoopExits ==
    /\ waitOutcome = "none" => AllNonTerminal(pollLog)
    /\ waitOutcome = "returned" =>
           /\ EndedOnFirst("complete")
           /\ result.kind = "record"
           /\ result.status = "complete"
           /\ lastFetched.status = "complete"
    /\ waitOutcome = "record_failed" => EndedOnFirst("error")
    /\ waitOutcome = "timed_out" =>
           /\ AllNonTerminal(pollLog)
           /\ Len(pollLog) = pollSleeps
           /\ Elapsed >= args.timeout

\* C20 as stated: wait_for_record_completion ends in exactly one of three
\* ways (the first complete poll returns its snapshot, the first error
\* poll raises NebuiaError, otherwise TimeoutError once the timeout has
\* elapsed); any other or missing status is non-terminal; k non-terminal
\* snapshots followed by a complete one, with k*interval below the
\* timeout, give a return after k+1 fetches and k sleeps, so a timeout
\* after k sleeps means k*interval has reached the timeout.
C20_ThreeExitsAndPollCount ==
    /\ waitOutcome \in {"none", "returned", "record_failed", "timed_out"}
    /\ LoopExits
    /\ waitOutcome = "timed_out" =>
           pollSleeps * args.polling_interval >= args.timeout

\* C20 amended: the wait ends in exactly one of four ways: the three above,
\* or a fetch that raises, whose exception leaves the function at once;
\* any other or missing status is non-terminal; k non-terminal snapshots
\* followed by a complete one, with the elapsed time read at each of the
\* k+1 loop tests below the timeout, give a return after k+1 fetches and k
\* sleeps.
C20_FourExitsAndPollCount ==
    /\ waitOutcome \in
           {"none", "returned", "record_failed", "timed_out", "fetch_raised"}
    /\ LoopExits
    /\ waitOutcome = "fetch_raised" =>
           /\ AllNonTerminal(pollLog)
           /\ Len(pollLog) = pollSleeps
           /\ Elapsed < args.timeout

\* Two polls without status or with a non-terminal one, then complete.
C20_Witness ==
    /\ waitOutcome = "returned"
    /\ Len(pollLog) = 3
    /\ pollSleeps = 2
    /\ pollLog[1] = "unknown"
    /\ result.status = "complete"

\* C21: when a status_callback is given, wait_for_record_completion invokes
\* it exactly once per fetch with that fetch's status, elapsed time and
\* full snapshot, also when the status is unchanged and also on the poll
\* that reads complete or error; without a callback nothing is invoked.
C21_CallbackOncePerFetch ==
    IF args.status_callback
    THEN /\ Len(callbackLog) = Len(pollLog)
         /\ \A i \in 1..Len(callbackLog) :
              /\ callbackLog[i].status = pollLog[i]
              /\ current_status(callbackLog[i].snapshot) = pollLog[i]
              /\ callbackLog[i].elapsed >= (i - 1) * args.polling_interval
              /\ callbackLog[i].elapsed <= Elapsed
         /\ callbackLog # <<>> =>
              callbackLog[Len(callbackLog)].snapshot = lastFetched
         /\ waitOutcome \in {"returned", "record_failed"} =>
              /\ callbackLog # <<>>
              /\ callbackLog[Len(callbackLog)].status \in {"complete", "error"}
              /\ callbackLog[Len(callbackLog)].elapsed = Elapsed
    ELSE callbackLog = <<>>

\* Two polls with the same status, then the poll that reads complete.
C21_Witness ==
    /\ args.status_callback
    /\ waitOutcome = "returned"
    /\ Len(callbackLog) = 3
    /\ callbackLog[1].status = callbackLog[2].status
    /\ callbackLog[3].status = "complete"
    /\ callbackLog[3].elapsed > 0

\* The record fetches made so far, the ones that raised included.
Fetches == Len(pollLog) + fetchErrors

\* Every fetch but the first is preceded by one sleep of polling_interval.
OneSleepBetweenFetches ==
    /\ pollSleeps > 0 => Fetches > 0
    /\ pc \in {"poll_head", "poll_fetch"} => pollSleeps = Fetches
    /\ pollSleeps <= Fetches
    /\ Fetches <= pollSleeps + 1
    /\ Elapsed >= pollSleeps * args.polling_interval

\* C22 as stated: whatever the interval and timeout, the first fetch of the
\* record happens before any sleep and before a TimeoutError can be raised,
\* and between two consecutive fetches exactly one sleep of
\* polling_interval occurs.
C22_FirstFetchBeforeSleepAndTimeout ==
    /\ OneSleepBetweenFetches
    /\ waitOutcome = "timed_out" => Fetches > 0

\* C22 amended: for every call with a timeout greater than zero, whatever
\* the interval, the first fetch happens before any sleep and before a
\* TimeoutError can be raised, and between two consecutive fetches exactly
\* one sleep of polling_interval occurs; with a timeout of zero
\* TimeoutError is raised without any fetch.
C22_FirstFetchBeforeSleepAndTimeoutWhenPositive ==
    /\ OneSleepBetweenFetches
    /\ waitOutcome = "timed_out" =>
           IF args.timeout > 0 THEN Fetches > 0 ELSE Fetches = 0

C22_Witness ==
    /\ waitOutcome = "timed_out"
    /\ args.timeout > 0
    /\ Len(pollLog) >= 2
    /\ pollSleeps = Len(pollLog)

\* C29: wait_for_record_completion does not swallow or retry a fetch
\* error: the poll whose fetch raises ends the wait, the error reaches the
\* caller's handlers at once, and there is no further fetch, no sleep and
\* no callback invocation for that poll.
C29_FetchErrorPropagatesAtOnce ==
    fetchErrors > 0 =>
        /\ fetchErrors = 1
        /\ waitOutcome = "fetch_raised"
        /\ pc \in {"final_fetch", "done"}
        /\ Len(pollLog) = pollSleeps
        /\ Len(callbackLog) = IF args.status_callback THEN Len(pollLog) ELSE 0

\* The second fetch of a wait with a callback raised.
C29_Witness ==
    /\ fetchErrors = 1
    /\ args.status_callback
    /\ Len(pollLog) = 1
    /\ Len(callbackLog) = 1
    /\ waitOutcome = "fetch_raised"

(***************************************************************************)
(* Properties of the client's request methods (specification SpecClient).  *)
(***************************************************************************)

\* The call of upload_document has ended.
UploadDone == call.op = "upload_document" /\ cpc = "done"

\* The errors upload_document raises before it touches the network.
LocalUploadErrors == {"FileNotFoundError", "ValueError"}

\* C23: upload_document checks the file before any network request: for
\* a missing file or an extension other than .pdf (in any letter case) it
\* raises a local error, dispatches no request and opens no file; a file
\* that exists with a .pdf extension in any case passes the check, is
\* opened and its request dispatched.
C23_UploadChecksFileBeforeAnyRequest ==
    call.op = "upload_document" =>
        IF IsValidEntry(call.file_path, fs)
        THEN cpc = "done" => (opened = 1 /\ Len(sent) = 1)
        ELSE /\ sent = <<>>
             /\ opened = 0
             /\ cpc \in {"call", "done"}
             /\ cpc = "done" => outcome.kind \in LocalUploadErrors

\* An existing .txt file was refused with no request and no open file.
C23_Witness ==
    /\ UploadDone
    /\ call.file_path = PathTxt
    /\ PathTxt \in fs
    /\ outcome.kind = "ValueError"
    /\ sent = <<>>
    /\ opened = 0

\* C24: once upload_document has returned or raised, whether after a
\* success, a failed file check, an API error or a network failure, no
\* file it opened is still open.
C24_NoHandleLeftOpenAfterUpload ==
    UploadDone => openHandles = {}

\* The upload opened the file, the API answered with an error, and the file
\* was closed.
C24_Witness ==
    /\ UploadDone
    /\ opened = 1
    /\ outcome.kind = "NebuiaApiError"
    /\ openHandles = {}

\* The call went through _make_request and its try block has ended.
MakeRequestEnded ==
    /\ call.op \notin {"none", "get_document_status"}
    /\ cpc \in {"finally", "done"}

\* The status codes of success.
Is2xx(status_code) == status_code \in 200..299

\* C25: _make_request returns the parsed body only for a 2xx response;
\* for any other response it raises NebuiaApiError with the status code
\* and the body of the response; for a transport failure it raises
\* NebuiaError, and a NebuiaApiError is never turned into a NebuiaError.
C25_BodyOnlyFor2xxAndTypedErrors ==
    MakeRequestEnded =>
        /\ outcome.kind = "body" =>
             response.kind = "response" /\ Is2xx(response.status_code)
        /\ (response.kind = "response" /\ ~Is2xx(response.status_code)) =>
             /\ outcome.kind = "NebuiaApiError"
             /\ outcome.status_code = response.status_code
             /\ outcome.body = IF response.parses THEN "json" ELSE "text"
        /\ response.kind = "transport_failure" => outcome.kind = "NebuiaError"

\* C26: with curl logging enabled every request the client dispatches,
\* the one of get_document_status to the embeddings origin included, has
\* its record in the log before it is dispatched; with logging disabled
\* the log stays empty.
C26_EveryRequestLoggedBeforeDispatch ==
    IF enable_curl_logging
    THEN Len(sent) <= Len(curlLog)
    ELSE curlLog = <<>>

\* The six fields create_configuration asks for.
SixFields ==
    {"title", "subtitle", "description", "endpoint", "icon", "documents"}

\* C30: create_configuration raises a validation error and dispatches no
\* request whenever config_data lacks one of title, subtitle, description,
\* endpoint, icon, documents; the request is dispatched only when all six
\* are present, and then it is.
C30_ConfigurationNeedsAllSixFields ==
    call.op = "create_configuration" =>
        IF SixFields \subseteq call.config_data
        THEN cpc = "done" => Len(sent) = 1
        ELSE /\ sent = <<>>
             /\ cpc \in {"call", "done"}
             /\ cpc = "done" => outcome.kind = "ValueError"

\* A configuration that lacks only "documents" was refused with no request.
C30_Witness ==
    /\ call.op = "create_configuration"
    /\ cpc = "done"
    /\ call.config_data = SixFields \ {"documents"}
    /\ outcome.kind = "ValueError"
    /\ sent = <<>>

(***************************************************************************)
(* Properties of process_multiple_records (specification SpecBatch).       *)
(***************************************************************************)

\* C28: a call of process_multiple_records with concurrent=true that
\* returns has run the full workflow once for each document map and
\* returns one result per map, as the sequential call does.
C28_ConcurrentRunsEveryWorkflow ==
    (cpc = "done" /\ call.concurrent /\ outcome = Returned) =>
        /\ workflows = Len(call.document_maps)
        /\ Len(results) = Len(call.document_maps)
        /\ \A i \in 1..Len(results) : results[i].record = i

(***************************************************************************)
(* Properties of extract_document_entities (specification SpecExtract).    *)
(***************************************************************************)

\* The type a document counts under.
TypeOfDocument(doc) ==
    IF doc.document_type = "absent" THEN "unknown" ELSE doc.document_type

\* The entities with a structure among the documents of type t, each as
\* <<document index, entity index>>.
StructuresOfType(record, t) ==
    {<<i, j>> \in (1..Len(record.documents)) \X (1..MaxEntities) :
        /\ TypeOfDocument(record.documents[i]) = t
        /\ j <= Len(record.documents[i].entities)
        /\ record.documents[i].entities[j].has_structure}

\* Position of the entity <<i, j>> among those of its type, in record order.
RankIn(S, i, j) ==
    1 + Cardinality({p \in S : p[1] < i \/ (p[1] = i /\ p[2] < j)})

\* e is the structure without its name_to_show field.
IsStripped(e, structure) ==
    /\ Keys(e) = Keys(structure) \ {"name_to_show"}
    /\ \A k \in Keys(e) : Lookup(e, k) = Lookup(structure, k)

\* C27: extract_document_entities maps each document type of the record
\* to the list, in order, of its entities' structures with name_to_show
\* removed; a type whose documents have no entities is present with an
\* empty list; None, an empty record or one without a documents key gives
\* an empty mapping; no returned structure contains name_to_show.
C27_ExtractMapsTypesToStrippedStructures ==
    (cpc = "done" /\ call.op = "extract_document_entities") =>
        IF record_result.kind # "record"
        THEN extracted_info = <<>>
        ELSE /\ Keys(extracted_info) =
                  {TypeOfDocument(record_result.documents[i])
                      : i \in 1..Len(record_result.documents)}
             /\ \A t \in Keys(extracted_info) :
                  LET S == StructuresOfType(record_result, t)
                      list == Lookup(extracted_info, t)
                  IN /\ Len(list) = Cardinality(S)
                     /\ \A p \in S :
                          IsStripped(list[RankIn(S, p[1], p[2])],
                                     record_result.documents[p[1]].entities[p[2]].structure)
                     /\ \A k \in 1..Len(list) :
                          "name_to_show" \notin Keys(list[k])

\* Two documents of one type, each with one entity with a structure, the
\* first holding a name_to_show: the type got the two structures in
\* document order, the first without its name_to_show.
C27_Witness ==
    /\ cpc = "done"
    /\ call.op = "extract_document_entities"
    /\ Len(record_result.documents) = 2
    /\ \A i \in 1..2 : Len(record_result.documents[i].entities) = 1
    /\ "name_to_show" \in Keys(record_result.documents[1].entities[1].structure)
    /\ Len(extracted_info) = 1
    /\ extracted_info[1].val =
         <<<<[key |-> "nombre", val |-> "A"]>>, <<[key |-> "nombre", val |-> "B"]>>>>

(***************************************************************************)
(* Further properties of process_documents (specification Spec).           *)
(***************************************************************************)

\* wait_for_record_completion was entered or has polled.
PollingStarted ==
    \/ pc \in {"poll_head", "poll_fetch"}
    \/ waitOutcome # "none"
    \/ pollLog # <<>>
    \/ fetchErrors > 0
    \/ pollSleeps > 0

\* C33 as stated: create_processing_job is called at most once, polling
\* starts only after that call succeeded, and when the call fails the
\* failure is swallowed: no polling occurs and the run returns the current
\* record snapshot with verification_results attached, not None.
C33_JobOnceAndFailureSwallowed ==
    /\ jobCount <= 1
    /\ PollingStarted => jobOutcome = "created"
    /\ jobOutcome = "raised" =>
         /\ ~raised
         /\ ~PollingStarted
         /\ pc \in {"final_fetch", "done"}
         /\ pc = "done" =>
              /\ ~fetchFailed
              /\ result = RecordResult(lastFetched, verification_results)

\* C33 amended: create_processing_job is called at most once, polling
\* starts only after that call succeeded, and when the call fails the
\* failure is swallowed: no polling occurs and the run returns the current
\* record snapshot with verification_results attached, or None when the
\* get_record_details call for that snapshot raises.
C33_JobOnceAndFailureSwallowedOrNone ==
    /\ jobCount <= 1
    /\ PollingStarted => jobOutcome = "created"
    /\ jobOutcome = "raised" =>
         /\ ~raised
         /\ ~PollingStarted
         /\ pc \in {"final_fetch", "done"}
         /\ pc = "done" =>
              IF fetchFailed THEN result = NoneResult
              ELSE result = RecordResult(lastFetched, verification_results)

\* The job call raised and the run returned the snapshot with the results.
C33_Witness ==
    /\ pc = "done"
    /\ jobOutcome = "raised"
    /\ jobCount = 1
    /\ ~fetchFailed
    /\ result.kind = "record"
    /\ result.has_vr
    /\ result.vr # <<>>

\* The job was created by a run that does not wait for completion.
JobCreatedWithoutWait == jobOutcome = "created" /\ ~args.wait_for_completion

\* C34 as stated: when wait_for_completion is false and the job is
\* created, no completion poll is made, the status callback is never
\* invoked, and the run returns one fresh record snapshot with
\* verification_results attached.
C34_NoWaitNoPollReturnsFreshSnapshot ==
    JobCreatedWithoutWait =>
        /\ ~PollingStarted
        /\ callbackLog = <<>>
        /\ pc \in {"final_fetch", "done"}
        /\ pc = "done" =>
             /\ ~fetchFailed
             /\ result = RecordResult(lastFetched, verification_results)

\* C34 amended: when wait_for_completion is false and the job is created,
\* no completion poll is made, the status callback is never invoked, and
\* the run returns one fresh record snapshot with verification_results
\* attached, or None when the get_record_details call for it raises.
C34_NoWaitNoPollReturnsFreshSnapshotOrNone ==
    JobCreatedWithoutWait =>
        /\ ~PollingStarted
        /\ callbackLog = <<>>
        /\ pc \in {"final_fetch", "done"}
        /\ pc = "done" =>
             IF fetchFailed THEN result = NoneResult
             ELSE result = RecordResult(lastFetched, verification_results)

\* A run that does not wait created the job and returned the snapshot.
C34_Witness ==
    /\ pc = "done"
    /\ JobCreatedWithoutWait
    /\ ~fetchFailed
    /\ result.kind = "record"
    /\ result.has_vr
    /\ result.vr # <<>>

\* C35: a document type is tracked only if its upload call returned and
\* the snapshot fetched right after lists a document of that type; the
\* tracked types are among the validated input keys, and every key of the
\* returned verification_results is a tracked type.
C35_TrackedOnlyUploadedAndListed ==
    /\ Keys(document_ids) \subseteq (uploaded \cap listed)
    /\ Keys(document_ids) \subseteq Keys(valid_documents)
    /\ Keys(valid_documents) \subseteq Keys(args.documents)
    /\ Keys(verification_results) \subseteq Keys(document_ids)
    /\ result.has_vr => Keys(result.vr) \subseteq Keys(document_ids)

\* Two documents were uploaded, only one of them was listed and tracked,
\* and the returned verification_results holds that one.
C35_Witness ==
    /\ pc = "done"
    /\ Cardinality(uploaded) = 2
    /\ Cardinality(Keys(document_ids)) = 1
    /\ result.has_vr
    /\ Keys(result.vr) = Keys(document_ids)

\* C36: when the create_record response carries no id, process_documents
\* returns None with no upload and no remote call after create_record.
C36_NoRecordIdReturnsNoneWithoutUpload ==
    recordIdMissing =>
        /\ pc = "done"
        /\ result = NoneResult
        /\ ~raised
        /\ seen = {"create_record"}
        /\ uploadTried = {}

\* create_record answered without an id and the run returned None.
C36_Witness ==
    /\ recordIdMissing
    /\ pc = "done"
    /\ result = NoneResult
    /\ valid_documents # <<>>

(***************************************************************************)
(* Further properties of process_multiple_records (specification           *)
(* SpecBatch).                                                             *)
(***************************************************************************)

\* C38: with concurrent=false the workflows run one after another in list
\* order and the call returns one result per document map in that order;
\* the first workflow that fails raises to the caller, no later map is
\* processed and the results of the earlier maps are not returned.
C38_SequentialInOrderFirstFailureRaises ==
    (call.op = "process_multiple_records" /\ ~call.concurrent) =>
        /\ \A i \in 1..Len(results) :
             results[i] = [status |-> "complete", record |-> i]
        /\ cpc = "loop" => Len(results) = workflows
        /\ cpc = "done" =>
             IF outcome = Returned
             THEN /\ workflows = Len(call.document_maps)
                  /\ Len(results) = Len(call.document_maps)
             ELSE /\ outcome = Raises("NebuiaError")
                  /\ Len(results) = workflows - 1

\* Of two maps the first one's workflow failed: the call raised and the
\* second map was not processed.
C38_Witness ==
    /\ call.op = "process_multiple_records"
    /\ ~call.concurrent
    /\ cpc = "done"
    /\ Len(call.document_maps) = 2
    /\ workflows = 1
    /\ outcome = Raises("NebuiaError")

(***************************************************************************)
(* Further properties of extract_document_entities (specification          *)
(* SpecExtract).                                                           *)
(***************************************************************************)

FailedCall(c) == c.end \in {"raised", "error"}

\* The rank of a client call in the workflow's order of steps.
WorkflowStep(c) ==
    CASE c.op = "create_record" -> 1
      [] c.op = "upload_document" -> 2
      [] c.op = "get_record_details" -> 3

\* The wait gave up: the budget was used up with no call failing.
WaitTimedOut ==
    /\ cpc = "done"
    /\ outcome # Returned
    /\ wfCalls # <<>>
    /\ ~FailedCall(wfCalls[Len(wfCalls)])

\* C31: process_full_workflow is all-or-nothing.  Its calls are
\* create_record, the uploads in map order, then the polls; a call that
\* fails is the last call made (after a failed upload no upload and no
\* poll follows) and the workflow then raises NebuiaError, as it does when
\* the wait times out; a record is returned only with status complete,
\* after every document of the map was uploaded.
C31_WorkflowAllOrNothing ==
    call.op = "process_full_workflow" =>
        /\ \A i \in 1..(Len(wfCalls) - 1) :
             /\ ~FailedCall(wfCalls[i])
             /\ WorkflowStep(wfCalls[i]) <= WorkflowStep(wfCalls[i + 1])
        /\ (wfCalls # <<>> /\ FailedCall(wfCalls[Len(wfCalls)])) =>
             /\ cpc = "done"
             /\ outcome = Raises("NebuiaError")
             /\ results = <<>>
        /\ WaitTimedOut =>
             /\ outcome = Raises("NebuiaError")
             /\ results = <<>>
        /\ (cpc = "done" /\ outcome = Returned) =>
             /\ Len(results) = 1
             /\ results[1].status = "complete"
             /\ wfCalls[Len(wfCalls)].end = "complete"
             /\ SelectSeq(wfCalls, LAMBDA c : c.op = "upload_document")
                  = [k \in 1..Len(document_map) |->
                       WfCall("upload_document", document_map[k].key, "returned")]

\* Of two documents the first upload failed: the workflow raised
\* NebuiaError with no second upload and no poll.
C31_Witness ==
    /\ call.op = "process_full_workflow"
    /\ cpc = "done"
    /\ Len(document_map) = 2
    /\ Len(wfCalls) = 2
    /\ wfCalls[2] = WfCall("upload_document", document_map[1].key, "raised")
    /\ outcome = Raises("NebuiaError")

(***************************************************************************)
(* Termination of process_documents (specification SpecLive).              *)
(***************************************************************************)

\* ceil(a / b) for b > 0.
Ceil(a, b) == (a + b - 1) \div b

\* The rounds of _wait_for_embedding and the fetches of
\* wait_for_record_completion stay within ceil(timeout / interval).
LoopsWithinBudget ==
    /\ embedRounds <= Ceil(args.status_check_timeout, args.status_check_interval)
    /\ Fetches <= Ceil(args.timeout, args.polling_interval)

\* C32: every run of process_documents ends; on the way
\* _wait_for_embedding runs at most ceil(timeout / interval) rounds and
\* wait_for_record_completion makes at most ceil(timeout / interval)
\* fetches.
C32_RunTerminatesWithinLoopBudgets ==
    []LoopsWithinBudget /\ <>(pc = "done")

\* A run that used both budgets to the full has ended.
C32_Witness ==
    /\ pc = "done"
    /\ args.status_check_timeout = MaxStatusTimeout
    /\ embedRounds = Ceil(args.status_check_timeout, args.status_check_interval)
    /\ args.timeout > 0
    /\ Fetches = Ceil(args.timeout, args.polling_interval)
    /\ pollSleeps > 0

\* What a call of process_documents does when it runs alone and the service
\* gives it the answers listed: StepFrame applied answer by answer.
RECURSIVE Alone(_, _)
Alone(f, answers) ==
    IF answers = <<>> THEN f ELSE Alone(StepFrame(f, Head(answers)), Tail(answers))

\* The records named by what a call tracks, verifies and returns.
RecordsIn(f) ==
    {f.document_ids[i].record : i \in 1..Len(f.document_ids)}
    \cup {f.verification_results[i].record
            : i \in 1..Len(f.verification_results)}
    \cup {f.result.vr[i].record : i \in 1..Len(f.result.vr)}
    \cup ({f.record_id} \ {0})

====
